---- MODULE Spec2Model ----
(***************************************************************************)
(* A model of acme-dns: the record store (acmedb, package main), and the   *)
(* HTTP auth middleware and handlers in front of it.                       *)
(*                                                                         *)
(* The SQL backend is modelled as tables: records is a set of account      *)
(* rows, txt / a / aaaa map a Subdomain to the sequence of its rows (in    *)
(* rowid order), acmedns is the sequence of db_version values.  A backend  *)
(* statement may fail; which statement fails is an input of the operation  *)
(* (the "fault").  Where SQL leaves a result unspecified (ORDER BY with    *)
(* equal keys, LIMIT without ORDER BY) the model takes every outcome.      *)
(***************************************************************************)
EXTENDS Integers, Sequences, FiniteSets, Bags, TLC

(***************************************************************************)
(* Bounds of the model.                                                    *)
(***************************************************************************)
\* the clock (time.Now().Unix()) takes the values 1..MaxTime
MaxTime == 2
\* number of account rows the records table may hold
MaxAccounts == 2
\* number of db_version rows the acmedns table may hold
MaxVersionRows == 2
\* number of flows (DNS queries, HTTP requests) that call the store at a time
MaxFlows == 2

(***************************************************************************)
(* Program constants.                                                      *)
(***************************************************************************)
DBVersion == 1
\* LIMIT of the SELECT in GetTXTForDomain
TxtLimit == 2
\* LIMIT of the SELECTs in GetAForDomain / GetAAAAForDomain
RowLimit == 255

(***************************************************************************)
(* Strings that are taken apart character by character are sequences of    *)
(* one-character strings.                                                  *)
(***************************************************************************)
Lower == {"a","b","c","d","e","f","g","h","i","j","k","l","m",
          "n","o","p","q","r","s","t","u","v","w","x","y","z"}
Upper == {"A","B","C","D","E","F","G","H","I","J","K","L","M",
          "N","O","P","Q","R","S","T","U","V","W","X","Y","Z"}
Digit == {"0","1","2","3","4","5","6","7","8","9"}

\* sanitize(s) strips every character outside [A-Za-z0-9]
sanitizeString(s) == SelectSeq(s, LAMBDA c : c \in Lower \cup Upper \cup Digit)

(***************************************************************************)
(* Input domains.                                                          *)
(***************************************************************************)
\* subdomains newACMETxt can mint: fixed length, characters of [a-z0-9]
\* (written with two characters for the forty)
GenSubdomains == {<<"a", "7">>, <<"z", "0">>}
\* a subdomain of the canonical UUID form, the form validSubdomain accepts
\* (written with one character for each of its five groups)
UuidSubdomain == <<"b", "-", "4", "-", "c", "-", "9", "-", "e">>
\* usernames newACMETxt can mint (UUIDs, canonical text)
Usernames == {"uuid1", "uuid2"}
\* what one call of newACMETxt mints: username, password, subdomain
Minted == {[u |-> "uuid1", p |-> "pw1", s |-> <<"a", "7">>],
           [u |-> "uuid2", p |-> "pw2", s |-> <<"z", "0">>],
           [u |-> "uuid1", p |-> "pw2", s |-> <<"z", "0">>]}
\* names the read operations are asked for: the subdomains, and one that needs sanitizing
QueryNames == GenSubdomains \cup {<<"a", "-", "7">>}
\* TXT tokens; "" is the unset value
TxtValues == {"x", "y", "z"}
\* textual IPv4 / IPv6 addresses handed to Update
AValueLists == {<<"192.0.2.2", "192.0.2.1">>, <<"192.0.2.1", "192.0.2.1">>}
AAAAValueLists == {<<"2001:db8::2", "2001:db8::1">>}

\* a net.IP: its family and the address; NilIP is the nil slice
NilIP == [fam |-> "nil", n |-> 0]

\* net.ParseIP(s).To4(): the IPv4 address a text denotes, nil when none
ParseIPv4(s) ==
    CASE s = "192.0.2.1" -> [fam |-> "v4", n |-> 1]
      [] s = "192.0.2.2" -> [fam |-> "v4", n |-> 2]
      [] s = "::ffff:192.0.2.1" -> [fam |-> "v4", n |-> 1]
      [] OTHER -> NilIP

\* net.ParseIP(s): the address a text denotes (of either family), nil when none
ParseIP(s) ==
    CASE s = "2001:db8::1" -> [fam |-> "v6", n |-> 1]
      [] s = "2001:db8::2" -> [fam |-> "v6", n |-> 2]
      [] s = "2001:DB8::1" -> [fam |-> "v6", n |-> 1]
      [] OTHER -> ParseIPv4(s)

\* bcrypt.GenerateFromPassword / CompareHashAndPassword
Hash(p) == <<"bcrypt", p>>
correctPassword(pw, hash) == hash = Hash(pw)

(***************************************************************************)
(* State.                                                                  *)
(***************************************************************************)
VARIABLES
    records,   \* table records: set of [Username, Password, Subdomain, AllowFrom]
    txt,       \* table txt: per Subdomain, its rows [Value, LastUpdate] in rowid order
    a,         \* table a: per Subdomain, its rows [Value, LastUpdate] in rowid order
    aaaa,      \* table aaaa: per Subdomain, its rows [Value, LastUpdate] in rowid order
    acmedns,   \* table acmedns: the Values of the rows named db_version
    admins,    \* table admins: whether it exists, and its rows [Username, Password]
    now,       \* the last reading of the clock
    config,    \* Config.API: UseHeader
    mru,       \* history: per subdomain, the distinct txt values of the successful updates
               \* since its slots were created, most recent first (at most two kept)
    last,      \* the last operation: its name, arguments and result
    Mutex,     \* acmedb.Mutex: the flow that holds it, 0 when it is free
    flows,     \* per flow, the store call it is in: position, arguments and locals
    closed,    \* d.DB.Close() was called on the backend
    whole      \* history: the tables as the last Update call that returned left them

vars == <<records, txt, a, aaaa, acmedns, admins, now, config, mru, last,
          Mutex, flows, closed, whole>>

\* the state of the flows that call the store step by step
conc == <<Mutex, flows, closed, whole>>

Flows == 1..MaxFlows

\* a flow that is in no store call
Idle ==
    [pc |-> "idle", op |-> "", domain |-> << >>,
     post |-> [Subdomain |-> << >>, Value |-> "", AValues |-> << >>, AAAAValues |-> << >>],
     timenow |-> 0, i |-> 0, err |-> FALSE,
     \* history: where the holder of the mutex was when this call was made
     met |-> ""]

store == <<records, txt, a, aaaa, acmedns, admins>>

\* every subdomain of the model: the minted ones and the one of UUID form
Subdomains == GenSubdomains \cup {UuidSubdomain}

NoRows == [s \in Subdomains |-> << >>]

\* an admin seeded out of band
SeededAdmins == {[Username |-> "admin", Password |-> Hash("adminpw")]}

(***************************************************************************)
(* The state after construction: a database that the first Init has        *)
(* created (db_version 1, no rows).  The admins table does not exist       *)
(* unless it was created out of band: the CREATE TABLE statement of        *)
(* adminTable has a trailing comma and fails, and Init ignores the error.  *)
(***************************************************************************)
Init ==
    /\ records = {}
    /\ txt = NoRows
    /\ a = NoRows
    /\ aaaa = NoRows
    /\ acmedns = <<"1">>
    /\ admins = [exists |-> FALSE, rows |-> {}]
    /\ now = 1
    /\ config = [UseHeader |-> FALSE]
    /\ mru = NoRows
    /\ last = [op |-> "none", arg |-> "", out |-> "", err |-> FALSE, panic |-> FALSE]
    /\ Mutex = 0
    /\ flows = [f \in Flows |-> Idle]
    /\ closed = FALSE
    /\ whole = [txt |-> txt, a |-> a, aaaa |-> aaaa]

(***************************************************************************)
(* cidrslice                                                               *)
(***************************************************************************)
\* net.ParseCIDR succeeds
ValidCidr(c) == c \in {"192.0.2.0/24", "198.51.100.0/24"}

Range(seq) == {seq[i] : i \in DOMAIN seq}

InSeq(x, sq) == \E i \in DOMAIN sq : sq[i] = x

RECURSIVE ValidEntriesFrom(_, _)
ValidEntriesFrom(cs, acc) ==
    IF cs = << >> THEN acc
    ELSE ValidEntriesFrom(Tail(cs),
            IF ValidCidr(Head(cs)) /\ ~InSeq(Head(cs), acc)
            THEN Append(acc, Head(cs)) ELSE acc)

\* the entries that parse, in order, without duplicates
ValidEntries(cs) == ValidEntriesFrom(cs, << >>)

\* cidrslice.JSON and the json.Unmarshal of getModelFromRow
ToJSON(cs) == [json |-> cs]
FromJSON(j) == j.json

(***************************************************************************)
(* Register                                                                *)
(***************************************************************************)
RegisterFaults == {"none", "begin", "prepare", "exec", "txt1", "txt2", "txt12", "commit"}

\* two INSERTs of an empty slot; the result of either Exec is discarded
NewTXTValuesInTransaction(t, subdomain, fault) ==
    LET row == [Value |-> "", LastUpdate |-> 0]
        t1 == IF fault \in {"txt1", "txt12"} THEN t
              ELSE [t EXCEPT ![subdomain] = Append(@, row)]
        t2 == IF fault \in {"txt2", "txt12"} THEN t1
              ELSE [t1 EXCEPT ![subdomain] = Append(@, row)]
    IN  [tbl |-> t2, err |-> FALSE]

\* the tables and the results of Register(afrom) when newACMETxt mints g
\* Register on tables without the UNIQUE constraints of records
RegisterResultNoUnique(afrom, g, fault) ==
    LET acct == [Username |-> g.u, Password |-> g.p, Subdomain |-> g.s,
                 AllowFrom |-> ValidEntries(afrom)]
        row == [Username |-> g.u, Password |-> Hash(g.p), Subdomain |-> g.s,
                AllowFrom |-> ToJSON(acct.AllowFrom)]
        ins == NewTXTValuesInTransaction(txt, g.s, fault)
        same == [records |-> records, txt |-> txt]
    IN  CASE fault = "begin" ->
                same @@ [out |-> acct, err |-> TRUE, panic |-> TRUE]
          [] fault = "prepare" ->
                same @@ [out |-> acct, err |-> TRUE, panic |-> FALSE]
          [] fault = "exec" ->
                same @@ [out |-> acct, err |-> TRUE, panic |-> FALSE]
          [] fault = "commit" ->
                same @@ [out |-> acct, err |-> ins.err, panic |-> FALSE]
          [] OTHER ->
                [records |-> records \cup {row}, txt |-> ins.tbl,
                 out |-> acct, err |-> ins.err, panic |-> FALSE]

RegisterResult(afrom, g, fault) ==
    LET acct == [Username |-> g.u, Password |-> g.p, Subdomain |-> g.s,
                 AllowFrom |-> ValidEntries(afrom)]
        row == [Username |-> g.u, Password |-> Hash(g.p), Subdomain |-> g.s,
                AllowFrom |-> ToJSON(acct.AllowFrom)]
        unique == \A r \in records : r.Username # g.u /\ r.Subdomain # g.s
        ins == NewTXTValuesInTransaction(txt, g.s, fault)
        same == [records |-> records, txt |-> txt]
    IN  CASE fault = "begin" ->
                \* tx is nil: tx.Prepare panics
                same @@ [out |-> acct, err |-> TRUE, panic |-> TRUE]
          [] fault = "prepare" ->
                same @@ [out |-> acct, err |-> TRUE, panic |-> FALSE]
          [] fault = "exec" \/ (fault \notin {"begin", "prepare"} /\ ~unique) ->
                \* the INSERT fails (UNIQUE, or the backend): rollback
                same @@ [out |-> acct, err |-> TRUE, panic |-> FALSE]
          [] fault = "commit" ->
                \* the error of Commit is discarded
                same @@ [out |-> acct, err |-> ins.err, panic |-> FALSE]
          [] OTHER ->
                [records |-> records \cup {row}, txt |-> ins.tbl,
                 out |-> acct, err |-> ins.err, panic |-> FALSE]

RegisterOp(Afroms, Faults) ==
    \E afrom \in Afroms, g \in Minted, fault \in Faults :
        LET r == RegisterResult(afrom, g, fault) IN
        /\ Cardinality(records) < MaxAccounts
        /\ records' = r.records
        /\ txt' = r.txt
        /\ last' = [op |-> "Register", arg |-> afrom, out |-> r.out, err |-> r.err,
                    panic |-> r.panic]
        /\ mru' = IF r.records # records THEN [mru EXCEPT ![g.s] = << >>] ELSE mru
        /\ UNCHANGED <<a, aaaa, acmedns, admins, now, config, conc>>

(***************************************************************************)
(* Update                                                                  *)
(***************************************************************************)
\* the longest list of a or aaaa values of the model
MaxList == 2

\* <<part, n>>: the n-th statement of that part of Update fails.
\* txt: 1 Prepare, 2 Exec.  a, aaaa: 1 Prepare(delete), 2 Prepare(insert),
\* 3 Exec(delete), 3+i Exec(insert) of the i-th value.
UpdateFaults ==
    {<<"none", 0>>} \cup {<<"txt", n>> : n \in 1..2}
        \cup {<<part, n>> : part \in {"a", "aaaa"}, n \in 1..(3 + MaxList)}

\* SELECT rowid FROM txt WHERE Subdomain=$3 ORDER BY LastUpdate LIMIT 1:
\* the rows of the subdomain with the least LastUpdate; SQL does not say
\* which of several such rows comes first.
OldestRows(t, subdomain) ==
    {i \in DOMAIN t[subdomain] :
        \A j \in DOMAIN t[subdomain] :
            t[subdomain][i].LastUpdate <= t[subdomain][j].LastUpdate}

\* the rowids the subquery may yield; 0 stands for no row
OldestRowChoices(t, subdomain) ==
    IF subdomain \in DOMAIN t /\ t[subdomain] # << >>
    THEN OldestRows(t, subdomain) ELSE {0}

\* UPDATE txt SET Value=$1, LastUpdate=$2 WHERE rowid=(...)
UpdateTXT(t, post, timenow, pick, fault) ==
    IF post.Value = "" THEN [tbl |-> t, err |-> FALSE]
    ELSE IF fault[1] = "txt" /\ fault[2] \in {1, 2} THEN [tbl |-> t, err |-> TRUE]
    ELSE IF pick = 0 THEN [tbl |-> t, err |-> FALSE]
    ELSE [tbl |-> [t EXCEPT ![post.Subdomain][pick] =
                        [Value |-> post.Value, LastUpdate |-> timenow]],
          err |-> FALSE]

RECURSIVE InsertRows(_, _, _, _)
InsertRows(rows, values, timenow, n) ==
    IF n = 0 \/ values = << >> THEN rows
    ELSE InsertRows(Append(rows, [Value |-> Head(values), LastUpdate |-> timenow]),
                    Tail(values), timenow, n - 1)

\* ReplaceRecords without its DELETE: the new rows are added to the old ones
ReplaceRecordsNoDelete(t, subdomain, values, timenow, failAt) ==
    IF Len(values) = 0 THEN [tbl |-> t, err |-> FALSE]
    ELSE IF failAt \in 1..(3 + Len(values)) THEN [tbl |-> t, err |-> TRUE]
    ELSE [tbl |-> [t EXCEPT ![subdomain] = InsertRows(@, values, timenow, Len(values))],
          err |-> FALSE]

\* ReplaceRecords without the test of len(values): an empty list deletes the rows
ReplaceRecordsUnguarded(t, subdomain, values, timenow, failAt) ==
    IF failAt \in 1..3 THEN [tbl |-> t, err |-> TRUE]
    ELSE [tbl |-> [t EXCEPT ![subdomain] = InsertRows(<< >>, values, timenow, Len(values))],
          err |-> FALSE]

\* DELETE FROM a WHERE Subdomain=$1, then one INSERT per value (the same for aaaa);
\* failAt is the statement that fails, 0 when none does
ReplaceRecords(t, subdomain, values, timenow, failAt) ==
    IF Len(values) = 0 THEN [tbl |-> t, err |-> FALSE]
    ELSE IF failAt \in 1..3 THEN [tbl |-> t, err |-> TRUE]
    ELSE IF failAt \in 4..(3 + Len(values))
         THEN [tbl |-> [t EXCEPT ![subdomain] = InsertRows(<< >>, values, timenow, failAt - 4)],
               err |-> TRUE]
    ELSE [tbl |-> [t EXCEPT ![subdomain] = InsertRows(<< >>, values, timenow, Len(values))],
          err |-> FALSE]

\* the three parts of Update in order; the first error returns
UpdateResult(post, timenow, pick, fault) ==
    LET r1 == UpdateTXT(txt, post, timenow, pick, fault)
        r2 == ReplaceRecords(a, post.Subdomain, post.AValues, timenow,
                             IF fault[1] = "a" THEN fault[2] ELSE 0)
        r3 == ReplaceRecords(aaaa, post.Subdomain, post.AAAAValues, timenow,
                             IF fault[1] = "aaaa" THEN fault[2] ELSE 0)
    IN  IF r1.err THEN [txt |-> r1.tbl, a |-> a, aaaa |-> aaaa, err |-> TRUE]
        ELSE IF r2.err THEN [txt |-> r1.tbl, a |-> r2.tbl, aaaa |-> aaaa, err |-> TRUE]
        ELSE [txt |-> r1.tbl, a |-> r2.tbl, aaaa |-> r3.tbl, err |-> r3.err]

\* the distinct values sent, most recent first, cut to two
Touch(seq, v) ==
    LET rest == SelectSeq(seq, LAMBDA x : x # v)
    IN  IF rest = << >> THEN <<v>> ELSE <<v, rest[1]>>

\* the fault names a statement that this post executes
Executes(post, fault) ==
    CASE fault[1] = "txt" -> post.Value # ""
      [] fault[1] = "a" -> post.AValues # << >> /\ fault[2] <= 3 + Len(post.AValues)
      [] fault[1] = "aaaa" -> post.AAAAValues # << >> /\ fault[2] <= 3 + Len(post.AAAAValues)
      [] OTHER -> TRUE

UpdateOp(Posts, Faults) ==
    \E post \in Posts, timenow \in now..MaxTime :
      \E fault \in {f \in Faults : Executes(post, f)}, pick \in OldestRowChoices(txt, post.Subdomain) :
        LET r == UpdateResult(post, timenow, pick, fault) IN
        /\ txt' = r.txt
        /\ a' = r.a
        /\ aaaa' = r.aaaa
        /\ now' = timenow
        /\ mru' = IF post.Value # "" /\ ~r.err
                  THEN [mru EXCEPT ![post.Subdomain] = Touch(@, post.Value)]
                  ELSE mru
        /\ last' = [op |-> "Update", arg |-> post, out |-> "", err |-> r.err, panic |-> FALSE]
        /\ UNCHANGED <<records, acmedns, admins, config, conc>>

(***************************************************************************)
(* The read operations                                                     *)
(***************************************************************************)
ReadFaults == {"none", "prepare", "query"}

\* the rows WHERE Subdomain=key
RowsFor(t, key) == IF key \in DOMAIN t THEN t[key] ELSE << >>

RECURSIVE PickRows(_, _, _)
PickRows(rows, S, i) ==
    IF i > Len(rows) THEN << >>
    ELSE (IF i \in S THEN <<rows[i]>> ELSE << >>) \o PickRows(rows, S, i + 1)

\* LIMIT n without ORDER BY: all the rows when there are at most n, else any n of them
LimitChoices(rows, n) ==
    IF Len(rows) <= n THEN {rows}
    ELSE {PickRows(rows, S, 1) : S \in {T \in SUBSET DOMAIN rows : Cardinality(T) = n}}

ValuesOf(rows) == [i \in DOMAIN rows |-> rows[i].Value]

\* the results GetTXTForDomain(domain) may return
GetTXTForDomain(domain, fault) ==
    IF fault # "none" THEN {[out |-> << >>, err |-> TRUE]}
    ELSE {[out |-> ValuesOf(rows), err |-> FALSE] :
            rows \in LimitChoices(RowsFor(txt, sanitizeString(domain)), TxtLimit)}

\* the scan loop of GetAForDomain / GetAAAAForDomain: the first value that
\* does not parse ends it with an error
ParseFor(family, s) == IF family = "a" THEN ParseIPv4(s) ELSE ParseIP(s)

RECURSIVE ScanIPs(_, _, _)
ScanIPs(values, ips, family) ==
    IF values = << >> THEN [out |-> ips, err |-> FALSE]
    ELSE IF ParseFor(family, Head(values)) = NilIP THEN [out |-> ips, err |-> TRUE]
    ELSE ScanIPs(Tail(values), Append(ips, ParseFor(family, Head(values))), family)

GetAForDomain(domain, fault) ==
    IF fault # "none" THEN {[out |-> << >>, err |-> TRUE]}
    ELSE {ScanIPs(ValuesOf(rows), << >>, "a") :
            rows \in LimitChoices(RowsFor(a, sanitizeString(domain)), RowLimit)}

GetAAAAForDomain(domain, fault) ==
    IF fault # "none" THEN {[out |-> << >>, err |-> TRUE]}
    ELSE {ScanIPs(ValuesOf(rows), << >>, "aaaa") :
            rows \in LimitChoices(RowsFor(aaaa, sanitizeString(domain)), RowLimit)}

CountFaults == {"none", "prepare", "query_txt", "query_a", "query_aaaa"}

\* CountRecords that counts the txt rows without a value too
CountRecordsAllRows(domain, fault) ==
    LET key == sanitizeString(domain)
        ctxt == Len(RowsFor(txt, key))
        ca == Len(RowsFor(a, key))
        caaaa == Len(RowsFor(aaaa, key))
    IN  CASE fault \in {"prepare", "query_txt"} -> [out |-> 0, err |-> TRUE]
          [] fault = "query_a" -> [out |-> ctxt, err |-> TRUE]
          [] fault = "query_aaaa" -> [out |-> ctxt + ca, err |-> TRUE]
          [] OTHER -> [out |-> ctxt + ca + caaaa, err |-> FALSE]

\* COUNT(*) of the txt rows with a value, of the a rows and of the aaaa rows
CountRecords(domain, fault) ==
    LET key == sanitizeString(domain)
        ctxt == Len(SelectSeq(RowsFor(txt, key), LAMBDA r : r.Value # ""))
        ca == Len(RowsFor(a, key))
        caaaa == Len(RowsFor(aaaa, key))
    IN  CASE fault \in {"prepare", "query_txt"} -> [out |-> 0, err |-> TRUE]
          [] fault = "query_a" -> [out |-> ctxt, err |-> TRUE]
          [] fault = "query_aaaa" -> [out |-> ctxt + ca, err |-> TRUE]
          [] OTHER -> [out |-> ctxt + ca + caaaa, err |-> FALSE]

NoUser == [Username |-> "", Password |-> "", Subdomain |-> << >>, AllowFrom |-> << >>]

getModelFromRow(r) ==
    [Username |-> r.Username, Password |-> r.Password, Subdomain |-> r.Subdomain,
     AllowFrom |-> FromJSON(r.AllowFrom)]

\* SELECT ... FROM records WHERE Username=$1 LIMIT 1
GetByUsername(u, fault) ==
    IF fault # "none" THEN {[out |-> NoUser, err |-> TRUE]}
    ELSE IF \E r \in records : r.Username = u
         THEN {[out |-> getModelFromRow(r), err |-> FALSE] : r \in {x \in records : x.Username = u}}
         ELSE {[out |-> NoUser, err |-> TRUE]}

\* SELECT Password FROM admins WHERE Username=$1 LIMIT 1; without the table Prepare fails
GetAdminPassByUsername(username, fault) ==
    IF fault # "none" \/ ~admins.exists THEN {[out |-> "", err |-> TRUE]}
    ELSE IF \E r \in admins.rows : r.Username = username
         THEN {[out |-> r.Password, err |-> FALSE] :
                r \in {x \in admins.rows : x.Username = username}}
         ELSE {[out |-> "", err |-> TRUE]}

ReadOp(name, Results(_, _), Args, Faults) ==
    \E arg \in Args, fault \in Faults :
      \E r \in Results(arg, fault) :
        /\ last' = [op |-> name, arg |-> arg, out |-> r.out, err |-> r.err, panic |-> FALSE]
        /\ UNCHANGED <<records, txt, a, aaaa, acmedns, admins, now, config, mru, conc>>

GetTXTOp == ReadOp("GetTXTForDomain", GetTXTForDomain, QueryNames, ReadFaults)
GetAOp == ReadOp("GetAForDomain", GetAForDomain, QueryNames, ReadFaults)
GetAAAAOp == ReadOp("GetAAAAForDomain", GetAAAAForDomain, QueryNames, ReadFaults)
CountRecordsOp ==
    ReadOp("CountRecords", LAMBDA d, f : {CountRecords(d, f)}, QueryNames, CountFaults)
GetByUsernameOp ==
    ReadOp("GetByUsername", GetByUsername, Usernames \cup {"uuid3"}, ReadFaults)
GetAdminPassByUsernameOp ==
    ReadOp("GetAdminPassByUsername", GetAdminPassByUsername, {"admin", "nobody"}, ReadFaults)

(***************************************************************************)
(* Init and the migration to version 1                                     *)
(***************************************************************************)
InitFaults == {"none", "open", "query", "begin", "delete", "txt1", "txt2", "txt12",
               "update_version", "commit", "insert_version"}

\* SELECT Value FROM acmedns WHERE Name='db_version'; no row reads as "0"
VersionString == IF acmedns = << >> \/ Head(acmedns) = "" THEN "0" ELSE Head(acmedns)

\* strconv.Atoi
Atoi(str) ==
    CASE str = "0" -> [n |-> 0, err |-> FALSE]
      [] str = "1" -> [n |-> 1, err |-> FALSE]
      [] OTHER -> [n |-> 0, err |-> TRUE]

RECURSIVE SeedSlots(_, _, _)
SeedSlots(t, subs, fault) ==
    IF subs = {} THEN t
    ELSE LET sub == CHOOSE x \in subs : TRUE IN
         SeedSlots(IF sub = << >> THEN t
                   ELSE NewTXTValuesInTransaction(t, sub, fault).tbl,
                   subs \ {sub}, fault)

\* one transaction: DELETE FROM txt, two slots per subdomain of records,
\* UPDATE acmedns SET Value='1'
handleDBUpgradeTo1(fault) ==
    LET same == [txt |-> txt, acmedns |-> acmedns, migrated |-> FALSE, panic |-> FALSE]
        t0 == IF fault = "delete" THEN txt ELSE NoRows
        t1 == SeedSlots(t0, {r.Subdomain : r \in records}, fault)
    IN  CASE fault = "query" -> same @@ [err |-> TRUE]
          \* tx is nil: tx.Exec panics
          [] fault = "begin" -> [same EXCEPT !.panic = TRUE] @@ [err |-> TRUE]
          [] fault = "update_version" -> same @@ [err |-> TRUE]
          [] fault = "commit" -> same @@ [err |-> FALSE]
          [] OTHER -> [txt |-> t1, acmedns |-> [i \in DOMAIN acmedns |-> "1"],
                       migrated |-> TRUE, panic |-> FALSE, err |-> FALSE]

checkDBUpgrades(versionString, fault) ==
    LET same == [txt |-> txt, acmedns |-> acmedns, migrated |-> FALSE, panic |-> FALSE] IN
    IF Atoi(versionString).err THEN same @@ [err |-> TRUE]
    ELSE IF Atoi(versionString).n # DBVersion /\ Atoi(versionString).n = 0
         THEN handleDBUpgradeTo1(fault)
         ELSE same @@ [err |-> FALSE]

\* the error of the Scan of the version query is discarded: a query that
\* fails (fault "version") reads as no row, that is as "0"
InitResult(fault) ==
    LET versionString == IF fault = "version" THEN "0" ELSE VersionString
        up == checkDBUpgrades(versionString, fault)
    IN
    IF fault = "open"
    THEN [txt |-> txt, acmedns |-> acmedns, migrated |-> FALSE, panic |-> FALSE, err |-> TRUE]
    ELSE IF ~up.err /\ versionString = "0"
         THEN IF fault = "insert_version" THEN [up EXCEPT !.err = TRUE]
              ELSE [up EXCEPT !.acmedns = Append(@, "1")]
         ELSE up

InitOp(Faults) ==
    \E fault \in Faults :
        LET r == InitResult(fault) IN
        /\ Len(r.acmedns) <= MaxVersionRows
        /\ txt' = r.txt
        /\ acmedns' = r.acmedns
        /\ mru' = IF r.migrated THEN NoRows ELSE mru
        /\ last' = [op |-> "Init", arg |-> "", out |-> "", err |-> r.err, panic |-> r.panic]
        /\ UNCHANGED <<records, a, aaaa, admins, now, config, conc>>

(***************************************************************************)
(* Validation and the source checks of an account                          *)
(***************************************************************************)
\* texts of the canonical UUID form
UuidTexts == {"uuid0", "uuid1", "uuid2", "uuid3"}

\* uuid.Parse: the identifier a text denotes
getValidUsername(u) == [out |-> u, err |-> u \notin UuidTexts]

\* keys of forty characters of [A-Za-z0-9]
validKey(k) == k \in {"pw0", "pw1", "pw2"}

\* tokens of the 43 characters of the base64url alphabet
validTXT(v) == v \in TxtValues

Hex == Digit \cup {"a", "b", "c", "d", "e", "f"}

\* ^[a-f0-9]{8}-[a-f0-9]{4}-[a-f0-9]{4}-[a-f0-9]{4}-[a-f0-9]{12}$, each group
\* written with one character
validSubdomain(sub) ==
    /\ Len(sub) = Len(UuidSubdomain)
    /\ \A i \in DOMAIN sub : IF i % 2 = 0 THEN sub[i] = "-" ELSE sub[i] \in Hex

\* cidrslice.isValid: every entry parses
isValid(cs) == \A i \in DOMAIN cs : ValidCidr(cs[i])

\* the network of a CIDR contains the address the text denotes; a text that
\* denotes no address is in no network
CidrContains(c, ip) ==
    \/ c = "192.0.2.0/24" /\ ip \in {"192.0.2.1", "192.0.2.2", "192.0.2.17"}
    \/ c = "198.51.100.0/24" /\ ip \in {"198.51.100.1"}

\* an empty allow_from admits every source; otherwise some CIDR holds the address
allowedFrom(user, ip) ==
    \/ user.AllowFrom = << >>
    \/ \E i \in DOMAIN user.AllowFrom : CidrContains(user.AllowFrom[i], ip)

\* an empty allow_from admits every source; otherwise some element is allowed
allowedFromList(user, ips) ==
    \/ user.AllowFrom = << >>
    \/ \E i \in DOMAIN ips : allowedFrom(user, ips[i])

\* the comma-separated addresses of the header, trimmed
getIPListFromHeader(h) ==
    CASE h = "" -> << >>
      [] h = "198.51.100.1, 192.0.2.17" -> <<"198.51.100.1", "192.0.2.17">>
      [] OTHER -> <<h>>

\* net.SplitHostPort
SplitHostPort(addr) ==
    CASE addr = "192.0.2.17:55555" -> [host |-> "192.0.2.17", err |-> FALSE]
      [] addr = "198.51.100.1:55555" -> [host |-> "198.51.100.1", err |-> FALSE]
      [] addr = "junk:55555" -> [host |-> "junk", err |-> FALSE]
      [] OTHER -> [host |-> "", err |-> TRUE]

\* net.IP.String
IPString(ip) ==
    CASE ip = [fam |-> "v4", n |-> 1] -> "192.0.2.1"
      [] ip = [fam |-> "v4", n |-> 2] -> "192.0.2.2"
      [] ip = [fam |-> "v6", n |-> 1] -> "2001:db8::1"
      [] ip = [fam |-> "v6", n |-> 2] -> "2001:db8::2"
      [] OTHER -> "<nil>"

(***************************************************************************)
(* The store on its own: every public operation, called in any order.      *)
(***************************************************************************)
\* posts that carry a txt value only: every token for one subdomain, one token for the other
TxtPosts ==
    {[Subdomain |-> <<"a", "7">>, Value |-> v, AValues |-> << >>, AAAAValues |-> << >>] :
        v \in TxtValues \cup {""}}
    \cup {[Subdomain |-> <<"z", "0">>, Value |-> "x", AValues |-> << >>, AAAAValues |-> << >>]}

TxtFaults == {f \in UpdateFaults : f[1] \in {"none", "txt"}}

RegisterStore == RegisterOp({<< >>}, RegisterFaults)
UpdateStore == UpdateOp(TxtPosts, TxtFaults)
InitStore == InitOp(InitFaults)

Next ==
    \/ InitStore
    \/ RegisterStore
    \/ UpdateStore
    \/ GetTXTOp

Spec == Init /\ [][Next]_vars

(***************************************************************************)
(* Properties of the two txt slots                                         *)
(***************************************************************************)
HasAccount(sub) == \E r \in records : r.Subdomain = sub

\* an account whose two slots exist
TwoSlots(sub) == sub \in DOMAIN txt /\ HasAccount(sub) /\ Len(txt[sub]) = 2

\* C1: after any sequence of successful updates with txt values on a
\* subdomain, the non-empty values get_txt returns are exactly the two most
\* recent distinct values sent (all of them when fewer than two were sent).
C1_TwoMostRecentDistinct ==
    (/\ last.op = "GetTXTForDomain"
     /\ ~last.err
     /\ TwoSlots(sanitizeString(last.arg)))
        => Range(last.out) \ {""} = Range(mru[sanitizeString(last.arg)])

\* C2: of two consecutive successful txt updates v1, v2 of a subdomain, the
\* second leaves the slot that holds v1 untouched, whatever the clock reads,
\* so that both values are in the slots afterwards.
C2_SecondUpdateKeepsFirst ==
    [][(/\ last'.op = "Update"
        /\ ~last'.err
        /\ last'.arg.Value # ""
        /\ TwoSlots(last'.arg.Subdomain)
        /\ mru[last'.arg.Subdomain] # << >>
        /\ mru[last'.arg.Subdomain][1] # last'.arg.Value)
            => LET sub == last'.arg.Subdomain
                   v1 == mru[sub][1]
               IN  /\ \E i \in 1..2 : txt[sub][i].Value = v1 /\ txt'[sub][i] = txt[sub][i]
                   /\ {v1, last'.arg.Value} \subseteq {txt'[sub][i].Value : i \in 1..2}]_vars

\* C3: in every reachable state every subdomain with an account row has
\* exactly two rows in the txt table.
C3_ExactlyTwoSlots ==
    \A r \in records : Len(txt[r.Subdomain]) = 2

\* C4: right after a Register that returns without error the new subdomain
\* has exactly two txt rows, both with empty value and last_update 0, and
\* get_txt returns no non-empty value for it.
C4_RegisterSeedsTwoEmptySlots ==
    (last.op = "Register" /\ ~last.err)
        => /\ txt[last.out.Subdomain]
                = <<[Value |-> "", LastUpdate |-> 0], [Value |-> "", LastUpdate |-> 0]>>
           /\ \A r \in GetTXTForDomain(last.out.Subdomain, "none") :
                ~r.err /\ Range(r.out) \subseteq {""}

\* C15: Register is all or nothing: either it returns an error and leaves
\* the records and txt tables as they were (a failing begin, prepare, account
\* insert or txt insert rolls the transaction back), or it returns without
\* error and has stored the account row together with its two empty txt rows.
C15_RegisterAllOrNothing ==
    [][last'.op = "Register"
        => \/ /\ last'.err
              /\ records' = records
              /\ txt' = txt
           \/ /\ ~last'.err
              /\ \E r \in records' \ records : r.Subdomain = last'.out.Subdomain
              /\ txt'[last'.out.Subdomain]
                    = <<[Value |-> "", LastUpdate |-> 0], [Value |-> "", LastUpdate |-> 0]>>]_vars

(***************************************************************************)
(* Starts on a database of the schema before version 1: no db_version,     *)
(* some accounts, and whatever rows the txt table held.                    *)
(***************************************************************************)
\* account rows of the database before version 1
LegacyAccounts ==
    {[Username |-> "uuid1", Password |-> Hash("pw1"), Subdomain |-> <<"a", "7">>,
      AllowFrom |-> ToJSON(<< >>)],
     [Username |-> "uuid2", Password |-> Hash("pw2"), Subdomain |-> <<"z", "0">>,
      AllowFrom |-> ToJSON(<<"192.0.2.0/24">>)]}

\* the txt rows a subdomain may hold before the migration
LegacyRows == {<< >>, <<[Value |-> "x", LastUpdate |-> 1]>>}

InitLegacy ==
    /\ records \in SUBSET LegacyAccounts
    /\ txt \in [Subdomains -> LegacyRows]
    /\ a = NoRows
    /\ aaaa = NoRows
    /\ acmedns = << >>
    /\ admins = [exists |-> FALSE, rows |-> {}]
    /\ now = 1
    /\ config = [UseHeader |-> FALSE]
    /\ mru = NoRows
    /\ last = [op |-> "none", arg |-> "", out |-> "", err |-> FALSE, panic |-> FALSE]
    /\ Mutex = 0
    /\ flows = [f \in Flows |-> Idle]
    /\ closed = FALSE
    /\ whole = [txt |-> txt, a |-> a, aaaa |-> aaaa]

\* the statements of a start that may fail: those of InitFaults and the version query
StartFaults == InitFaults \cup {"version"}

InitStart == InitOp(StartFaults)
RegisterStart == RegisterOp({<< >>}, {"none"})
UpdateStart ==
    UpdateOp({[Subdomain |-> <<"a", "7">>, Value |-> "y", AValues |-> << >>,
               AAAAValues |-> << >>]}, {<<"none", 0>>})

NextStart ==
    \/ InitStart
    \/ RegisterStart
    \/ UpdateStart

SpecStart == InitLegacy /\ [][NextStart]_vars

\* the txt table holds two empty slots for every account and no other row
Migrated(t) ==
    \A s \in Subdomains :
        t[s] = IF HasAccount(s)
               THEN <<[Value |-> "", LastUpdate |-> 0], [Value |-> "", LastUpdate |-> 0]>>
               ELSE << >>

\* C16: after an Init that returns without error on a database without
\* db_version, db_version reads "1", every subdomain of an account has
\* exactly two txt rows with empty value, the txt table holds no other row,
\* and the account rows are as they were.
C16_MigrationSeedsTwoSlots ==
    [][(last'.op = "Init" /\ ~last'.err /\ acmedns = << >>)
        => /\ acmedns' # << >>
           /\ \A i \in DOMAIN acmedns' : acmedns'[i] = "1"
           /\ Migrated(txt')
           /\ records' = records]_vars

\* C17: an Init on a database whose db_version is DBVersion performs no
\* migration: it leaves every row of txt, a, aaaa, records and acmedns as it
\* was, so that the txt values written between two starts survive.
C17_MigrationRunsOnce ==
    [][(last'.op = "Init" /\ acmedns # << >> /\ Head(acmedns) = "1")
        => UNCHANGED <<txt, a, aaaa, records, acmedns>>]_vars

\* C18: the migration is all or nothing: an Init on a database without
\* db_version either returns without error, with the txt table migrated and
\* db_version "1", or returns an error and leaves the txt table exactly as
\* it was and db_version absent.
C18_MigrationAllOrNothing ==
    [][(last'.op = "Init" /\ acmedns = << >>)
        => \/ /\ ~last'.err
              /\ Migrated(txt')
              /\ acmedns' = <<"1">>
           \/ /\ last'.err
              /\ txt' = txt
              /\ acmedns' = << >>]_vars

(***************************************************************************)
(* The store on its own, updates of the a and aaaa records.                *)
(***************************************************************************)
\* posts that carry addresses only: every list for one subdomain, alone and
\* together, and one post for the other subdomain
AddrPosts ==
    {[Subdomain |-> <<"a", "7">>, Value |-> "", AValues |-> av, AAAAValues |-> << >>] :
        av \in AValueLists}
    \cup {[Subdomain |-> <<"a", "7">>, Value |-> "", AValues |-> << >>, AAAAValues |-> av6] :
        av6 \in AAAAValueLists}
    \cup {[Subdomain |-> <<"a", "7">>, Value |-> "", AValues |-> <<"192.0.2.1", "192.0.2.1">>,
           AAAAValues |-> <<"2001:db8::2", "2001:db8::1">>],
          [Subdomain |-> <<"z", "0">>, Value |-> "", AValues |-> <<"192.0.2.2">>,
           AAAAValues |-> <<"2001:db8::1">>]}

AddrFaults == {f \in UpdateFaults : f[1] \in {"none", "a", "aaaa"}}

RegisterAddr == RegisterOp({<< >>}, {"none"})
UpdateAddr == UpdateOp(AddrPosts, AddrFaults)

NextAddr ==
    \/ RegisterAddr
    \/ UpdateAddr
    \/ GetAOp
    \/ GetAAAAOp

SpecAddr == Init /\ [][NextAddr]_vars

\* the elements of a sequence with their multiplicities
BagOfSeq(seq) == [x \in Range(seq) |-> Cardinality({i \in DOMAIN seq : seq[i] = x})]

ParsedList(values, family) == [i \in DOMAIN values |-> ParseFor(family, values[i])]

\* C10: after a successful update that carries a non-empty list a, get_a for
\* the subdomain returns exactly the addresses of the list, as a multiset:
\* nothing stored before and nothing of another subdomain; the same holds
\* for aaaa and get_aaaa.
C10_GetReturnsTheReplacedSet ==
    (last.op = "Update" /\ ~last.err)
        => /\ Len(last.arg.AValues) > 0
                => \A r \in GetAForDomain(last.arg.Subdomain, "none") :
                     ~r.err /\ BagOfSeq(r.out) = BagOfSeq(ParsedList(last.arg.AValues, "a"))
           /\ Len(last.arg.AAAAValues) > 0
                => \A r \in GetAAAAForDomain(last.arg.Subdomain, "none") :
                     ~r.err /\ BagOfSeq(r.out) = BagOfSeq(ParsedList(last.arg.AAAAValues, "aaaa"))

\* a list with a repeated address has replaced the set of one subdomain while
\* the other subdomain holds addresses of its own
C10_Witness ==
    /\ last.op = "Update" /\ ~last.err
    /\ last.arg.Subdomain = <<"a", "7">>
    /\ last.arg.AValues = <<"192.0.2.1", "192.0.2.1">>
    /\ last.arg.AAAAValues = <<"2001:db8::2", "2001:db8::1">>
    /\ Len(a[<<"a", "7">>]) = 2
    /\ a[<<"z", "0">>] # << >>
    /\ aaaa[<<"z", "0">>] # << >>

\* C11: when an update call that carries a non-empty list a returns, with
\* success or with the error of any of its statements, the a rows of the
\* subdomain are either the rows it had before or exactly the new list,
\* never none and never a strict prefix of the list; the same for aaaa.
C11_ReplaceIsAtomic ==
    [][last'.op = "Update"
        => LET sub == last'.arg.Subdomain IN
           /\ Len(last'.arg.AValues) > 0
                => \/ a'[sub] = a[sub]
                   \/ ValuesOf(a'[sub]) = last'.arg.AValues
           /\ Len(last'.arg.AAAAValues) > 0
                => \/ aaaa'[sub] = aaaa[sub]
                   \/ ValuesOf(aaaa'[sub]) = last'.arg.AAAAValues]_vars

(***************************************************************************)
(* The store on its own, updates that carry any of the three parts.        *)
(***************************************************************************)
\* for one subdomain the empty post, a post with each part alone and one
\* with the three parts; a post with addresses for the other subdomain
MixedPosts ==
    {[Subdomain |-> <<"a", "7">>, Value |-> "", AValues |-> << >>, AAAAValues |-> << >>],
     [Subdomain |-> <<"a", "7">>, Value |-> "x", AValues |-> << >>, AAAAValues |-> << >>],
     [Subdomain |-> <<"a", "7">>, Value |-> "", AValues |-> <<"192.0.2.1">>,
      AAAAValues |-> << >>],
     [Subdomain |-> <<"a", "7">>, Value |-> "", AValues |-> << >>,
      AAAAValues |-> <<"2001:db8::1">>],
     [Subdomain |-> <<"a", "7">>, Value |-> "x", AValues |-> <<"192.0.2.1">>,
      AAAAValues |-> <<"2001:db8::1">>],
     [Subdomain |-> <<"z", "0">>, Value |-> "", AValues |-> <<"192.0.2.2">>,
      AAAAValues |-> << >>]}

\* a statement of each part that fails
MixedFaults == {<<"none", 0>>, <<"txt", 2>>, <<"a", 4>>, <<"aaaa", 3>>}

RegisterMixed == RegisterOp({<< >>}, {"none"})
UpdateMixed == UpdateOp(MixedPosts, MixedFaults)

NextMixed ==
    \/ RegisterMixed
    \/ UpdateMixed

SpecMixed == Init /\ [][NextMixed]_vars

\* C12: an update with an empty value leaves the txt rows of the subdomain
\* as they were, one with an empty list a leaves its a rows, one with an
\* empty list aaaa leaves its aaaa rows; no update changes records, admins,
\* acmedns or a row of another subdomain.
C12_PartsAreIndependent ==
    [][last'.op = "Update"
        => LET post == last'.arg
               sub == post.Subdomain
           IN  /\ post.Value = "" => txt'[sub] = txt[sub]
               /\ post.AValues = << >> => a'[sub] = a[sub]
               /\ post.AAAAValues = << >> => aaaa'[sub] = aaaa[sub]
               /\ UNCHANGED <<records, admins, acmedns>>
               /\ \A s \in Subdomains \ {sub} :
                    txt'[s] = txt[s] /\ a'[s] = a[s] /\ aaaa'[s] = aaaa[s]]_vars

\* an update with a token only has been made on a subdomain that holds
\* addresses of both families, while the other subdomain holds rows too
C12_Witness ==
    /\ last.op = "Update" /\ ~last.err
    /\ last.arg = [Subdomain |-> <<"a", "7">>, Value |-> "x",
                   AValues |-> << >>, AAAAValues |-> << >>]
    /\ \E i \in DOMAIN txt[<<"a", "7">>] : txt[<<"a", "7">>][i].Value = "x"
    /\ a[<<"a", "7">>] # << >>
    /\ aaaa[<<"a", "7">>] # << >>
    /\ a[<<"z", "0">>] # << >>

(***************************************************************************)
(* The HTTP API: the auth middleware and the handlers behind it.           *)
(* A response is the sequence of the WriteJsonResponse calls of a request; *)
(* events are the lookups, password verifications, gate checks and writes  *)
(* of the request, in the order the code performs them.                    *)
(***************************************************************************)
W(code, body) == [code |-> code, body |-> body]

jsonError(e) == [error |-> e]

\* getUserFromRequest without the verification on a failed lookup
getUserFromRequestNoDummy(r, fault) ==
    LET un == getValidUsername(r.User) IN
    IF un.err \/ ~validKey(r.Key)
    THEN {[user |-> NoUser, err |-> TRUE, events |-> << >>]}
    ELSE {IF g.err
          THEN [user |-> NoUser, err |-> TRUE, events |-> <<"lookup:miss">>]
          ELSE IF correctPassword(r.Key, g.out.Password)
               THEN [user |-> g.out, err |-> FALSE, events |-> <<"lookup:hit", "verify">>]
               ELSE [user |-> NoUser, err |-> TRUE, events |-> <<"lookup:hit", "verify">>] :
            g \in GetByUsername(un.out, fault)}

\* the results getUserFromRequest may return for the X-Api-User and X-Api-Key of r
getUserFromRequest(r, fault) ==
    LET un == getValidUsername(r.User) IN
    IF un.err \/ ~validKey(r.Key)
    THEN {[user |-> NoUser, err |-> TRUE, events |-> << >>]}
    ELSE {IF g.err
          THEN [user |-> NoUser, err |-> TRUE,
                \* correctPassword(passwd, the dummy hash): the result is discarded
                events |-> <<"lookup:miss", "verify:dummy">>]
          ELSE IF correctPassword(r.Key, g.out.Password)
               THEN [user |-> g.out, err |-> FALSE, events |-> <<"lookup:hit", "verify">>]
               ELSE [user |-> NoUser, err |-> TRUE, events |-> <<"lookup:hit", "verify">>] :
            g \in GetByUsername(un.out, fault)}

\* updateAllowedFromIP that reads the remote address whatever Config.API.UseHeader is
updateAllowedFromIPNoHeader(r, user) ==
    LET sp == SplitHostPort(r.RemoteAddr)
    IN  allowedFrom(user, IF sp.err THEN "" ELSE sp.host)

\* updateAllowedFromIP that refuses a remote address it cannot split
updateAllowedFromIPStrict(r, user) ==
    IF config.UseHeader
    THEN allowedFromList(user, getIPListFromHeader(r.Header))
    ELSE LET sp == SplitHostPort(r.RemoteAddr)
         IN  ~sp.err /\ allowedFrom(user, sp.host)

updateAllowedFromIP(r, user) ==
    IF config.UseHeader
    THEN allowedFromList(user, getIPListFromHeader(r.Header))
    ELSE LET sp == SplitHostPort(r.RemoteAddr)
         IN  allowedFrom(user, IF sp.err THEN "" ELSE sp.host)

\* what a handler leaves: the tables, the writes, the events, whether
\* DB.Update was called and whether it failed
Answer(t, code, body, events) ==
    t @@ [writes |-> <<W(code, IF code = 200 THEN body ELSE jsonError(body))>>, events |-> events \o <<"write">>,
          dbcalled |-> FALSE, dberr |-> FALSE]

\* the addresses of the post in the text net.IP.String gives them
Normalised(post) ==
    [post EXCEPT !.AValues = [i \in DOMAIN @ |-> IPString(ParseIPv4(@[i]))],
                 !.AAAAValues = [i \in DOMAIN @ |-> IPString(ParseIP(@[i]))]]

\* webUpdatePost that checks the addresses before the txt value
webUpdatePostAddressesFirst(post, timenow, pick, fault) ==
    LET same == [txt |-> txt, a |-> a, aaaa |-> aaaa]
        ev == <<"handler">>
    IN  IF ~validSubdomain(post.Subdomain)
        THEN Answer(same, 400, "bad_subdomain", ev)
        ELSE IF post.Value = "" /\ Len(post.AValues) < 1 /\ Len(post.AAAAValues) < 1
        THEN Answer(same, 400, "bad_txt", ev)
        ELSE IF \E i \in DOMAIN post.AValues : ParseIPv4(post.AValues[i]) = NilIP
        THEN Answer(same, 400, "bad_a", ev)
        ELSE IF \E i \in DOMAIN post.AAAAValues :
                    \/ ParseIP(post.AAAAValues[i]) = NilIP
                    \/ ParseIPv4(post.AAAAValues[i]) # NilIP
        THEN Answer(same, 400, "bad_aaaa", ev)
        ELSE IF post.Value # "" /\ ~validTXT(post.Value)
        THEN Answer(same, 400, "bad_txt", ev)
        ELSE LET u == UpdateResult(Normalised(post), timenow, pick, fault)
                 t == [txt |-> u.txt, a |-> u.a, aaaa |-> u.aaaa]
             IN  IF u.err
                 THEN [Answer(t, 500, "db_error", ev) EXCEPT !.dbcalled = TRUE, !.dberr = TRUE]
                 ELSE [Answer(t, 200, [txt |-> post.Value, a |-> Normalised(post).AValues,
                                         aaaa |-> Normalised(post).AAAAValues], ev)
                         EXCEPT !.dbcalled = TRUE]

\* webUpdatePost with the post the middleware put into the context
webUpdatePost(post, timenow, pick, fault) ==
    LET same == [txt |-> txt, a |-> a, aaaa |-> aaaa]
        ev == <<"handler">>
    IN  IF ~validSubdomain(post.Subdomain)
        THEN Answer(same, 400, "bad_subdomain", ev)
        ELSE IF post.Value = "" /\ Len(post.AValues) < 1 /\ Len(post.AAAAValues) < 1
        THEN Answer(same, 400, "bad_txt", ev)
        ELSE IF post.Value # "" /\ ~validTXT(post.Value)
        THEN Answer(same, 400, "bad_txt", ev)
        ELSE IF \E i \in DOMAIN post.AValues : ParseIPv4(post.AValues[i]) = NilIP
        THEN Answer(same, 400, "bad_a", ev)
        ELSE IF \E i \in DOMAIN post.AAAAValues :
                    \/ ParseIP(post.AAAAValues[i]) = NilIP
                    \/ ParseIPv4(post.AAAAValues[i]) # NilIP
        THEN Answer(same, 400, "bad_aaaa", ev)
        ELSE LET u == UpdateResult(Normalised(post), timenow, pick, fault)
                 t == [txt |-> u.txt, a |-> u.a, aaaa |-> u.aaaa]
             IN  IF u.err
                 THEN [Answer(t, 500, "db_error", ev) EXCEPT !.dbcalled = TRUE, !.dberr = TRUE]
                 ELSE [Answer(t, 200, [txt |-> post.Value, a |-> Normalised(post).AValues,
                                         aaaa |-> Normalised(post).AAAAValues], ev)
                         EXCEPT !.dbcalled = TRUE]

\* AuthForUpdate that does not compare the subdomain of the body with the account's
AuthForUpdateAnySubdomain(r, g, timenow, pick, fault) ==
    LET same == [txt |-> txt, a |-> a, aaaa |-> aaaa] IN
    IF g.err THEN Answer(same, 401, "unauthorized", g.events)
    ELSE IF ~updateAllowedFromIP(r, g.user)
    THEN Answer(same, 403, "forbidden", g.events \o <<"cidr:fail">>)
    ELSE IF ~r.Body.ok
    THEN Answer(same, 400, "bad_request", g.events \o <<"cidr:ok", "decode:fail">>)
    ELSE LET h == webUpdatePost(r.Body.post, timenow, pick, fault)
         IN  [h EXCEPT !.events = g.events \o <<"cidr:ok", "decode:ok", "subdomain:ok">> \o @]

\* AuthForUpdate that decodes the body before it checks the source
AuthForUpdateDecodeFirst(r, g, timenow, pick, fault) ==
    LET same == [txt |-> txt, a |-> a, aaaa |-> aaaa] IN
    IF g.err THEN Answer(same, 401, "unauthorized", g.events)
    ELSE IF ~r.Body.ok
    THEN Answer(same, 400, "bad_request", g.events \o <<"decode:fail">>)
    ELSE IF ~updateAllowedFromIP(r, g.user)
    THEN Answer(same, 403, "forbidden", g.events \o <<"decode:ok", "cidr:fail">>)
    ELSE IF g.user.Subdomain # r.Body.post.Subdomain
    THEN Answer(same, 403, "forbidden",
                g.events \o <<"decode:ok", "cidr:ok", "subdomain:fail">>)
    ELSE LET h == webUpdatePost(r.Body.post, timenow, pick, fault)
         IN  [h EXCEPT !.events = g.events \o <<"decode:ok", "cidr:ok", "subdomain:ok">> \o @]

\* AuthForUpdate(webUpdatePost) on request r, g being what getUserFromRequest returned
AuthForUpdate(r, g, timenow, pick, fault) ==
    LET same == [txt |-> txt, a |-> a, aaaa |-> aaaa] IN
    IF g.err THEN Answer(same, 401, "unauthorized", g.events)
    ELSE IF ~updateAllowedFromIP(r, g.user)
    THEN Answer(same, 403, "forbidden", g.events \o <<"cidr:fail">>)
    ELSE IF ~r.Body.ok
    THEN Answer(same, 400, "bad_request", g.events \o <<"cidr:ok", "decode:fail">>)
    ELSE IF g.user.Subdomain # r.Body.post.Subdomain
    THEN Answer(same, 403, "forbidden",
                g.events \o <<"cidr:ok", "decode:ok", "subdomain:fail">>)
    ELSE LET h == webUpdatePost(r.Body.post, timenow, pick, fault)
         IN  [h EXCEPT !.events = g.events \o <<"cidr:ok", "decode:ok", "subdomain:ok">> \o @]

\* the body of an update request: one that does not decode, or a post
NoPost == [Subdomain |-> << >>, Value |-> "", AValues |-> << >>, AAAAValues |-> << >>]

Malformed == [ok |-> FALSE, post |-> NoPost]

Body(sub, v, av, av6) ==
    [ok |-> TRUE, post |-> [Subdomain |-> sub, Value |-> v, AValues |-> av, AAAAValues |-> av6]]

\* the post the owner of the UUID-form subdomain sends: a token and addresses
OwnPost == Body(UuidSubdomain, "x", <<"::ffff:192.0.2.1">>, <<"2001:DB8::1">>)

\* posts for the subdomain of UUID form that webUpdatePost refuses: with one
\* field that fails its check, and with several
RefusedBodies ==
    {Body(UuidSubdomain, "", << >>, << >>),
     Body(UuidSubdomain, "short", << >>, << >>),
     Body(UuidSubdomain, "", <<"2001:db8::1">>, << >>),
     Body(UuidSubdomain, "", << >>, <<"192.0.2.1">>),
     Body(UuidSubdomain, "short", <<"2001:db8::1">>, <<"192.0.2.1">>),
     Body(UuidSubdomain, "x", <<"192.0.2.1", "2001:db8::1">>, <<"192.0.2.1">>),
     Body(UuidSubdomain, "x", <<"192.0.2.1">>, <<"2001:db8::1", "192.0.2.1">>)}

\* where a request comes from: the peer address and the header Config.API.HeaderName names
Inside == [RemoteAddr |-> "192.0.2.17:55555", Header |-> "192.0.2.17"]
Outside == [RemoteAddr |-> "198.51.100.1:55555", Header |-> "198.51.100.1, 192.0.2.17"]

Sources ==
    {Inside, Outside,
     [RemoteAddr |-> "nonsense", Header |-> ""],
     [RemoteAddr |-> "junk:55555", Header |-> "junk"],
     [RemoteAddr |-> "192.0.2.17:55555", Header |-> "198.51.100.1"]}

Request(u, k, src, b) ==
    [User |-> u, Key |-> k, RemoteAddr |-> src.RemoteAddr, Header |-> src.Header, Body |-> b]

\* the credentials of the two accounts, from every source with a post for
\* their own subdomain, and from two sources with a body that does not decode
\* and a post for the other's subdomain; the posts webUpdatePost refuses;
\* the credentials no account has; a post for a subdomain that is not of UUID
\* form whose other fields fail their checks too
UpdateRequests ==
    {Request("uuid0", "pw0", src, OwnPost) : src \in Sources}
    \cup {Request("uuid1", "pw1", src, Body(<<"a", "7">>, "x", << >>, << >>)) : src \in Sources}
    \cup {Request("uuid0", "pw0", src, b) :
            src \in {Inside, Outside}, b \in {Malformed, Body(<<"a", "7">>, "x", << >>, << >>)}}
    \cup {Request("uuid1", "pw1", src, b) : src \in {Inside, Outside}, b \in {Malformed, OwnPost}}
    \cup {Request("uuid0", "pw0", Inside, b) : b \in RefusedBodies}
    \cup {Request(c[1], c[2], Inside, OwnPost) :
            c \in {<<"uuid0", "pw1">>, <<"not-a-uuid", "pw0">>, <<"uuid0", "short">>}}
    \cup {Request("uuid0", "pw1", Outside, Malformed)}
    \cup {Request("uuid1", "pw1", Inside, Body(<<"a", "7">>, "short", << >>, <<"192.0.2.1">>))}

HttpFaults == {<<"none", 0>>, <<"txt", 2>>}

\* the statement of GetByUsername that fails: none, or the Query of the
\* lookups of the requests from the first source
LookupFaults(r) ==
    IF getValidUsername(r.User).err \/ ~validKey(r.Key) \/ r.RemoteAddr # Inside.RemoteAddr
    THEN {"none"} ELSE {"none", "query"}

\* POST /update.  The clock and the statement of Update that fails are inputs
\* of the requests that get as far as DB.Update.
HttpUpdate ==
    \E r \in UpdateRequests :
      \E lookup \in LookupFaults(r) :
        \E g \in getUserFromRequest(r, lookup) :
          LET reaches == AuthForUpdate(r, g, now, 0, <<"none", 0>>).dbcalled IN
          \E timenow \in IF reaches THEN now..MaxTime ELSE {now},
             fault \in IF reaches THEN {f \in HttpFaults : Executes(r.Body.post, f)}
                       ELSE {<<"none", 0>>},
             pick \in IF reaches THEN OldestRowChoices(txt, r.Body.post.Subdomain) ELSE {0} :
            LET h == AuthForUpdate(r, g, timenow, pick, fault) IN
            /\ txt' = h.txt
            /\ a' = h.a
            /\ aaaa' = h.aaaa
            /\ now' = timenow
            /\ mru' = IF h.dbcalled /\ ~h.dberr /\ r.Body.post.Value # ""
                      THEN [mru EXCEPT ![r.Body.post.Subdomain] = Touch(@, r.Body.post.Value)]
                      ELSE mru
            /\ last' = [op |-> "HttpUpdate", arg |-> [req |-> r, lookup |-> lookup],
                        out |-> [writes |-> h.writes, events |-> h.events, user |-> g.user],
                        err |-> h.dberr, panic |-> FALSE]
            /\ UNCHANGED <<records, acmedns, admins, config, conc>>

\* the body of a register request: empty, one that does not unmarshal, or an allowfrom list
RegisterBodies ==
    {[len |-> 0, ok |-> TRUE, AllowFrom |-> << >>],
     [len |-> 1, ok |-> FALSE, AllowFrom |-> << >>],
     [len |-> 1, ok |-> TRUE, AllowFrom |-> <<"192.0.2.0/24", "192.0.2.0/24">>],
     [len |-> 1, ok |-> TRUE, AllowFrom |-> <<"bogus", "192.0.2.0/24">>]}

\* r.BasicAuth()
BasicAuths ==
    {[ok |-> FALSE, username |-> "", password |-> ""],
     [ok |-> TRUE, username |-> "admin", password |-> "guess"],
     [ok |-> TRUE, username |-> "nobody", password |-> "adminpw"]}

\* the admin with every body; the others with an empty body
RegisterRequests ==
    {[Auth |-> [ok |-> TRUE, username |-> "admin", password |-> "adminpw"], Body |-> b] :
        b \in RegisterBodies}
    \cup {[Auth |-> au, Body |-> [len |-> 0, ok |-> TRUE, AllowFrom |-> << >>]] : au \in BasicAuths}

\* what the register handlers leave: the tables, the writes, the events, the
\* account Register returned and whether the handler panicked
Registered(t, writes, events, nu, panic) ==
    t @@ [writes |-> writes, events |-> events, nu |-> nu, panic |-> panic]

\* fmt.Sprintf("%v", err) of the error DB.Register returned
ErrorText == "SQL error"

\* webRegisterPost without the check of the allowfrom list
webRegisterPostNoCidrCheck(r, g, fault) ==
    LET same == [records |-> records, txt |-> txt]
        reg == RegisterResult(r.Body.AllowFrom, g, fault)
        t == [records |-> reg.records, txt |-> reg.txt]
        created == W(201, [username |-> reg.out.Username, password |-> reg.out.Password,
                           subdomain |-> reg.out.Subdomain,
                           allowfrom |-> ValidEntries(reg.out.AllowFrom)])
    IN  IF r.Body.len > 0 /\ ~r.Body.ok
        THEN Registered(same, <<W(400, jsonError("malformed_json_payload"))>>,
                        <<"handler", "write">>, NoUser, FALSE)
        ELSE IF reg.panic
        THEN Registered(t, << >>, <<"handler", "register">>, NoUser, TRUE)
        ELSE IF reg.err
        THEN Registered(t, <<W(500, jsonError(ErrorText)), created>>,
                        <<"handler", "register", "write", "write">>, reg.out, FALSE)
        ELSE Registered(t, <<created>>, <<"handler", "register", "write">>, reg.out, FALSE)

\* webRegisterPost when newACMETxt mints g
webRegisterPost(r, g, fault) ==
    LET same == [records |-> records, txt |-> txt]
        reg == RegisterResult(r.Body.AllowFrom, g, fault)
        t == [records |-> reg.records, txt |-> reg.txt]
        created == W(201, [username |-> reg.out.Username, password |-> reg.out.Password,
                           subdomain |-> reg.out.Subdomain,
                           allowfrom |-> ValidEntries(reg.out.AllowFrom)])
    IN  IF r.Body.len > 0 /\ ~r.Body.ok
        THEN Registered(same, <<W(400, jsonError("malformed_json_payload"))>>,
                        <<"handler", "write">>, NoUser, FALSE)
        ELSE IF ~isValid(r.Body.AllowFrom)
        THEN Registered(same, <<W(400, jsonError("invalid_allowfrom_cidr"))>>,
                        <<"handler", "write">>, NoUser, FALSE)
        ELSE IF reg.panic
        THEN Registered(t, << >>, <<"handler", "register">>, NoUser, TRUE)
        ELSE IF reg.err
        \* no return after the 500: the 201 is written as well
        THEN Registered(t, <<W(500, jsonError(ErrorText)), created>>,
                        <<"handler", "register", "write", "write">>, reg.out, FALSE)
        ELSE Registered(t, <<created>>, <<"handler", "register", "write">>, reg.out, FALSE)

\* AuthForRegister(webRegisterPost) on request r, p being what GetAdminPassByUsername returned
AuthForRegister(r, p, g, fault) ==
    LET same == [records |-> records, txt |-> txt]
        denied == <<W(401, jsonError("unauthorized"))>>
    IN  IF ~r.Auth.ok THEN Registered(same, denied, <<"write">>, NoUser, FALSE)
        ELSE IF p.err
        \* correctPassword(password, the dummy hash): the result is discarded
        THEN Registered(same, denied, <<"lookup:miss", "verify:dummy", "write">>, NoUser, FALSE)
        ELSE IF ~correctPassword(r.Auth.password, p.out)
        THEN Registered(same, denied, <<"lookup:hit", "verify", "write">>, NoUser, FALSE)
        ELSE LET h == webRegisterPost(r, g, fault)
             IN  [h EXCEPT !.events = <<"lookup:hit", "verify">> \o @]

\* POST /register.  What newACMETxt mints and the statement of Register that
\* fails are inputs of the requests that get as far as DB.Register.
HttpRegister ==
    \E r \in RegisterRequests :
      \E lookup \in IF r.Auth.ok THEN {"none", "query"} ELSE {"none"} :
        \E p \in GetAdminPassByUsername(r.Auth.username, lookup) :
          LET reaches == "register" \in Range(AuthForRegister(r, p, CHOOSE g \in Minted : TRUE,
                                                              "none").events) IN
          \E g \in IF reaches THEN Minted ELSE {CHOOSE g \in Minted : TRUE},
             fault \in IF reaches THEN {"none", "exec"} ELSE {"none"} :
            LET h == AuthForRegister(r, p, g, fault) IN
            /\ Cardinality(records) < MaxAccounts
            /\ records' = h.records
            /\ txt' = h.txt
            /\ mru' = IF h.records # records THEN [mru EXCEPT ![g.s] = << >>] ELSE mru
            /\ last' = [op |-> "HttpRegister", arg |-> [req |-> r, lookup |-> lookup],
                        out |-> [writes |-> h.writes, events |-> h.events, user |-> h.nu],
                        \* err: DB.Register was called and returned an error
                        err |-> /\ "register" \in Range(h.events)
                                /\ ~h.panic
                                /\ RegisterResult(r.Body.AllowFrom, g, fault).err,
                        panic |-> h.panic]
            /\ UNCHANGED <<a, aaaa, acmedns, admins, now, config, conc>>

(***************************************************************************)
(* The HTTP API in front of a database that held an account when it was    *)
(* opened: the account has a subdomain of UUID form and its two slots.     *)
(***************************************************************************)
StoredAccount ==
    [Username |-> "uuid0", Password |-> Hash("pw0"), Subdomain |-> UuidSubdomain,
     AllowFrom |-> ToJSON(<<"192.0.2.0/24">>)]

\* the admins table was created and seeded out of band
InitHttp ==
    /\ records = {StoredAccount}
    /\ txt = [NoRows EXCEPT ![UuidSubdomain] =
                <<[Value |-> "", LastUpdate |-> 0], [Value |-> "", LastUpdate |-> 0]>>]
    /\ a = NoRows
    /\ aaaa = NoRows
    /\ acmedns = <<"1">>
    /\ admins = [exists |-> TRUE, rows |-> SeededAdmins]
    /\ now = 1
    /\ config \in [UseHeader : BOOLEAN]
    /\ mru = NoRows
    /\ last = [op |-> "none", arg |-> "", out |-> "", err |-> FALSE, panic |-> FALSE]
    /\ Mutex = 0
    /\ flows = [f \in Flows |-> Idle]
    /\ closed = FALSE
    /\ whole = [txt |-> txt, a |-> a, aaaa |-> aaaa]

NextHttp ==
    \/ HttpRegister
    \/ HttpUpdate

SpecHttp == InitHttp /\ [][NextHttp]_vars

(***************************************************************************)
(* Properties of the update gate and the register gate                     *)
(***************************************************************************)
\* the accounts of the store that the X-Api-User and X-Api-Key of r verify against
Verified(r) ==
    {getModelFromRow(acc) :
        acc \in {x \in records : /\ x.Username = r.User
                                 /\ validKey(r.Key)
                                 /\ correctPassword(r.Key, x.Password)}}

\* the request got exactly one response, the error e with status code
Only(writes, code, e) ==
    Len(writes) = 1 /\ writes[1].code = code /\ writes[1].body = jsonError(e)

\* C5: account isolation.  Over HTTP update requests the txt, a and aaaa rows
\* of a subdomain change only by a request whose X-Api-User and X-Api-Key
\* verify against the account that owns the subdomain; a request
\* authenticated as one account whose body names the subdomain of another
\* account is answered 403 forbidden and changes no row.
C5_AccountIsolation ==
    [][last'.op = "HttpUpdate" =>
        LET r == last'.arg.req IN
        /\ \A s \in Subdomains :
             (txt'[s] # txt[s] \/ a'[s] # a[s] \/ aaaa'[s] # aaaa[s])
                => \E u \in Verified(r) : u.Subdomain = s
        /\ \A u \in Verified(r) :
             (/\ last'.arg.lookup = "none"
              /\ r.Body.ok
              /\ r.Body.post.Subdomain # u.Subdomain
              /\ HasAccount(r.Body.post.Subdomain))
                => /\ Only(last'.out.writes, 403, "forbidden")
                   /\ <<txt', a', aaaa'>> = <<txt, a, aaaa>>]_vars

\* the owner of the UUID-form subdomain has stored a token, and a request
\* with the credentials of the other account names that subdomain
C5_Witness ==
    /\ last.op = "HttpUpdate"
    /\ last.out.user.Username = "uuid1"
    /\ last.arg.req.Body.ok
    /\ last.arg.req.Body.post.Subdomain = UuidSubdomain
    /\ Only(last.out.writes, 403, "forbidden")
    /\ \E i \in DOMAIN txt[UuidSubdomain] : txt[UuidSubdomain][i].Value = "x"

\* C6: the update gate checks in a fixed order (1) the headers and the
\* credentials, failure 401 unauthorized; (2) the source against the CIDRs,
\* failure 403 forbidden; (3) that the body decodes; (4) that the subdomain of
\* the body is the account's, failure 403 forbidden.  A request that fails a
\* check gets the response of the first check it fails, whatever later checks
\* would say, and the store is unchanged; the update handler runs only when
\* all four pass.
C6_GateOrder ==
    [][last'.op = "HttpUpdate" =>
        LET r == last'.arg.req
            o == last'.out
            c1 == last'.arg.lookup = "none" /\ Verified(r) # {}
            c2 == \E u \in Verified(r) : updateAllowedFromIP(r, u)
            c3 == r.Body.ok
            c4 == \E u \in Verified(r) : u.Subdomain = r.Body.post.Subdomain
            invoked == "handler" \in Range(o.events)
            unchanged == <<records', txt', a', aaaa', acmedns', admins'>> = store
        IN  /\ ~c1 => Only(o.writes, 401, "unauthorized") /\ ~invoked /\ unchanged
            /\ (c1 /\ ~c2) => Only(o.writes, 403, "forbidden") /\ ~invoked /\ unchanged
            /\ (c1 /\ c2 /\ ~c3) => Only(o.writes, 400, "bad_request") /\ ~invoked /\ unchanged
            /\ (c1 /\ c2 /\ c3 /\ ~c4)
                    => Only(o.writes, 403, "forbidden") /\ ~invoked /\ unchanged
            /\ invoked => (c1 /\ c2 /\ c3 /\ c4)
            /\ ~unchanged => invoked]_vars

\* an authenticated request from a source outside the CIDRs whose body does
\* not decode: the second check answers
C6_Witness ==
    /\ last.op = "HttpUpdate"
    /\ last.out.user.Username = "uuid0"
    /\ ~last.arg.req.Body.ok
    /\ "cidr:fail" \in Range(last.out.events)
    /\ Only(last.out.writes, 403, "forbidden")

\* the lookup of the gate was made and found no row (or failed)
LookupMissed ==
    LET r == last.arg.req IN
    \/ /\ last.op = "HttpUpdate"
       /\ ~getValidUsername(r.User).err
       /\ validKey(r.Key)
       /\ (last.arg.lookup # "none" \/ ~\E acc \in records : acc.Username = r.User)
    \/ /\ last.op = "HttpRegister"
       /\ r.Auth.ok
       /\ \/ last.arg.lookup # "none"
          \/ ~admins.exists
          \/ ~\E row \in admins.rows : row.Username = r.Auth.username

\* C7: timing discipline.  On every path of the register gate and of the
\* update gate on which the lookup in the store fails, a password
\* verification against the fixed dummy hash is made before the 401
\* unauthorized response is written.
C7_DummyVerifyBefore401 ==
    (last.op \in {"HttpUpdate", "HttpRegister"} /\ LookupMissed)
        => LET ev == last.out.events IN
           /\ Only(last.out.writes, 401, "unauthorized")
           /\ \E i, j \in DOMAIN ev :
                /\ i < j
                /\ ev[i] = "verify:dummy"
                /\ ev[j] = "write"
                /\ \A k \in 1..(j - 1) : ev[k] # "write"

\* an update request with well-formed credentials of an account the store does not hold
C7_Witness ==
    /\ last.op = "HttpUpdate"
    /\ LookupMissed
    /\ last.arg.lookup = "none"
    /\ "verify:dummy" \in Range(last.out.events)

\* the source of the request lies in a CIDR of the list: the host of the peer
\* address, or with UseHeader some address of the header
SourceInside(r, cidrs) ==
    IF config.UseHeader
    THEN \E ip \in Range(getIPListFromHeader(r.Header)) :
            \E c \in Range(cidrs) : CidrContains(c, ip)
    ELSE /\ ~SplitHostPort(r.RemoteAddr).err
         /\ \E c \in Range(cidrs) : CidrContains(c, SplitHostPort(r.RemoteAddr).host)

\* C8: CIDR enforcement.  For an authenticated account with a non-empty
\* allow_from the update gate admits the request iff its source (the host of
\* the peer address, or with use_header some address of the header) lies in
\* a CIDR of allow_from; a source that does not parse is rejected; a rejected
\* request gets 403 forbidden.
C8_CidrEnforcement ==
    (last.op = "HttpUpdate" /\ last.arg.lookup = "none")
        => \A u \in Verified(last.arg.req) :
             u.AllowFrom # << >>
                => LET inside == SourceInside(last.arg.req, u.AllowFrom) IN
                   /\ ("cidr:ok" \in Range(last.out.events)) <=> inside
                   /\ ~inside => Only(last.out.writes, 403, "forbidden")

\* with UseHeader, a header that names an address outside and an address
\* inside the CIDR of the account is admitted
C8_Witness ==
    /\ last.op = "HttpUpdate"
    /\ config.UseHeader
    /\ last.out.user.Username = "uuid0"
    /\ last.out.user.AllowFrom = <<"192.0.2.0/24">>
    /\ last.arg.req.Header = "198.51.100.1, 192.0.2.17"
    /\ "cidr:ok" \in Range(last.out.events)

C19_RegisteredAccountCanUpdate ==
    (/\ last.op = "HttpUpdate"
     /\ last.out.user.Username \in Usernames
     /\ "subdomain:ok" \in Range(last.out.events)
     /\ validTXT(last.arg.req.Body.post.Value)
     /\ ~last.err)
        => /\ Len(last.out.writes) = 1
           /\ last.out.writes[1].code = 200

(***************************************************************************)
(* Properties of the error responses of the two endpoints                  *)
(***************************************************************************)
\* the request passed the gate of its endpoint and its body reached the decoder
ReachedDecoder ==
    LET r == last.arg.req IN
    \/ last.op = "HttpRegister" /\ "handler" \in Range(last.out.events)
    \/ /\ last.op = "HttpUpdate"
       /\ last.arg.lookup = "none"
       /\ \E u \in Verified(r) : updateAllowedFromIP(r, u)

\* the body of the request is not valid JSON
Undecodable ==
    LET b == last.arg.req.Body IN
    \/ last.op = "HttpRegister" /\ b.len > 0 /\ ~b.ok
    \/ last.op = "HttpUpdate" /\ ~b.ok

\* C21: a request body that is not valid JSON is answered with status 400 and
\* the error malformed_json_payload on both endpoints: on POST /register (a
\* non-empty body that does not decode) and on POST /update (a body that does
\* not decode, from an authenticated client at a permitted address); in both
\* cases nothing is written to the store.
C21_MalformedJsonPayload ==
    [][(ReachedDecoder /\ Undecodable)'
        => /\ Only(last'.out.writes, 400, "malformed_json_payload")
           /\ <<records', txt', a', aaaa', acmedns', admins'>> = store]_vars

\* C22: when DB.Register returns an error, POST /register produces exactly
\* one response, status 500 with a single JSON error object; no second status
\* or body is written and the response discloses no username, password or
\* subdomain.
C22_OneResponseOnStoreFailure ==
    (last.op = "HttpRegister" /\ last.err)
        => /\ Len(last.out.writes) = 1
           /\ last.out.writes[1].code = 500
           /\ DOMAIN last.out.writes[1].body = {"error"}
           /\ \A i \in DOMAIN last.out.writes :
                {"username", "password", "subdomain"} \cap DOMAIN last.out.writes[i].body = {}

\* C23: POST /register with an allowfrom list that has an entry which does
\* not parse as a CIDR is answered 400 invalid_allowfrom_cidr and creates
\* nothing: DB.Register is not called and the records and txt tables are
\* unchanged, also when other entries of the list are valid.
C23_InvalidAllowFromRejected ==
    [][(/\ last'.op = "HttpRegister"
        /\ "handler" \in Range(last'.out.events)
        /\ ~Undecodable'
        /\ \E i \in DOMAIN last'.arg.req.Body.AllowFrom :
              ~ValidCidr(last'.arg.req.Body.AllowFrom[i]))
        => /\ Only(last'.out.writes, 400, "invalid_allowfrom_cidr")
           /\ "register" \notin Range(last'.out.events)
           /\ records' = records
           /\ txt' = txt]_vars

\* the admin has sent a list with a valid entry after one that does not parse
C23_Witness ==
    /\ last.op = "HttpRegister"
    /\ last.arg.req.Body.AllowFrom = <<"bogus", "192.0.2.0/24">>
    /\ "handler" \in Range(last.out.events)
    /\ Only(last.out.writes, 400, "invalid_allowfrom_cidr")

\* the error the checks of the update handler give a post, "" when it passes
\* them all
FirstFailedCheck(p) ==
    IF ~validSubdomain(p.Subdomain) THEN "bad_subdomain"
    ELSE IF p.Value = "" /\ p.AValues = << >> /\ p.AAAAValues = << >> THEN "bad_txt"
    ELSE IF p.Value # "" /\ ~validTXT(p.Value) THEN "bad_txt"
    ELSE IF \E i \in DOMAIN p.AValues : ParseIPv4(p.AValues[i]) = NilIP THEN "bad_a"
    ELSE IF \E i \in DOMAIN p.AAAAValues :
                ParseIP(p.AAAAValues[i]) = NilIP \/ ParseIPv4(p.AAAAValues[i]) # NilIP
    THEN "bad_aaaa"
    ELSE ""

\* C27: the update handler validates in a fixed order and calls DB.Update only
\* when every check passes: an invalid subdomain gives 400 bad_subdomain; else
\* none of txt, a, aaaa supplied gives 400 bad_txt; else a txt that is not a
\* valid token gives 400 bad_txt; else an a value that is not IPv4 gives 400
\* bad_a; else an aaaa value that is not an IPv6 address (or is an IPv4 one)
\* gives 400 bad_aaaa.  On every 400 the store is unchanged, also when earlier
\* fields of the request were valid.
C27_ValidationOrder ==
    [][(last'.op = "HttpUpdate" /\ "handler" \in Range(last'.out.events)) =>
        LET o == last'.out
            e == FirstFailedCheck(last'.arg.req.Body.post)
            unchanged == <<records', txt', a', aaaa', acmedns', admins'>> = store
        IN  /\ Len(o.writes) = 1
            /\ e # "" => Only(o.writes, 400, e) /\ unchanged
            /\ e = "" => o.writes[1].code \in {200, 500}
            /\ o.writes[1].code = 400 => unchanged]_vars

\* a post with a valid token and a valid a value whose second aaaa value is an
\* IPv4 address was refused, for a subdomain that holds a token
C27_Witness ==
    /\ last.op = "HttpUpdate"
    /\ last.arg.req.Body.post.Value = "x"
    /\ last.arg.req.Body.post.AAAAValues = <<"2001:db8::1", "192.0.2.1">>
    /\ Only(last.out.writes, 400, "bad_aaaa")
    /\ \E i \in DOMAIN txt[UuidSubdomain] : txt[UuidSubdomain][i].Value = "x"
    /\ \E i \in DOMAIN aaaa[UuidSubdomain] : aaaa[UuidSubdomain][i].Value = "2001:db8::1"

\* C28: the write key and the read key coincide: for every subdomain s the
\* update handler accepts (validSubdomain(s) holds), sanitizeString(s) = s, so
\* a txt, a or aaaa value that Update stored under s is found by
\* GetTXTForDomain, GetAForDomain, GetAAAAForDomain and CountRecords, which
\* look up sanitizeString(s).
C28_WriteKeyIsReadKey ==
    (/\ last.op = "HttpUpdate"
     /\ Len(last.out.writes) = 1
     /\ last.out.writes[1].code = 200)
        => LET p == last.arg.req.Body.post IN
           /\ validSubdomain(p.Subdomain)
           /\ sanitizeString(p.Subdomain) = p.Subdomain
           /\ p.Value # ""
                => \A r \in GetTXTForDomain(p.Subdomain, "none") : InSeq(p.Value, r.out)
           /\ p.AValues # << >>
                => \A r \in GetAForDomain(p.Subdomain, "none") :
                      \A i \in DOMAIN p.AValues : InSeq(ParseIPv4(p.AValues[i]), r.out)
           /\ p.AAAAValues # << >>
                => \A r \in GetAAAAForDomain(p.Subdomain, "none") :
                      \A i \in DOMAIN p.AAAAValues : InSeq(ParseIP(p.AAAAValues[i]), r.out)
           /\ CountRecords(p.Subdomain, "none").out > 0

(***************************************************************************)
(* The store on its own: accounts.                                         *)
(***************************************************************************)
\* allow_from lists handed to Register: none, and one with an entry that
\* does not parse between two that do
AllowFromLists == {<< >>, <<"198.51.100.0/24", "bogus", "192.0.2.0/24">>}

RegisterAccount == RegisterOp(AllowFromLists, {"none", "exec", "commit"})
UpdateAccount ==
    UpdateOp({[Subdomain |-> <<"a", "7">>, Value |-> "x", AValues |-> <<"192.0.2.1">>,
               AAAAValues |-> << >>]}, {<<"none", 0>>})

NextAccounts ==
    \/ RegisterAccount
    \/ UpdateAccount
    \/ GetByUsernameOp

SpecAccounts == Init /\ [][NextAccounts]_vars

\* the account a Register returned reads back by its username
ReadsBack(acct) ==
    \A r \in GetByUsername(acct.Username, "none") :
        /\ ~r.err
        /\ r.out.Subdomain = acct.Subdomain
        /\ r.out.AllowFrom = acct.AllowFrom
        /\ correctPassword(acct.Password, r.out.Password)
        /\ \A g \in Minted : g.p # acct.Password => ~correctPassword(g.p, r.out.Password)

\* C20: the account a successful Register returns reads back by its
\* username with the same subdomain and the same allow_from (the entries that
\* parse, in order), its password verifies against the stored hash and no
\* other password does; no later call deletes or alters an account row.
C20_RegisterRoundTrip ==
    [][/\ ((last.op = "Register" /\ ~last.err) => ReadsBack(last.out))'
       /\ records \subseteq records']_vars

\* C30: in every reachable state of the records table no two accounts share
\* a username and no two accounts share a subdomain: a Register whose
\* generated username or subdomain collides with an existing account fails
\* and is rolled back without altering the existing account or its txt slots.
C30_UniqueAccounts ==
    [][/\ (\A r1, r2 \in records :
              r1 # r2 => r1.Username # r2.Username /\ r1.Subdomain # r2.Subdomain)'
       /\ (/\ last'.op = "Register"
           /\ \E r \in records : \/ r.Username = last'.out.Username
                                 \/ r.Subdomain = last'.out.Subdomain)
            => /\ last'.err
               /\ records' = records
               /\ txt' = txt]_vars

\* a Register that minted the username of the account that holds a token in
\* its slots, with another subdomain, has failed
C30_Witness ==
    /\ last.op = "Register"
    /\ last.err
    /\ \E r \in records : /\ r.Username = last.out.Username
                          /\ r.Subdomain # last.out.Subdomain
                          /\ \E i \in DOMAIN txt[r.Subdomain] : txt[r.Subdomain][i].Value = "x"

(***************************************************************************)
(* The DNS responder.  Names are taken apart character by character; a     *)
(* label of the zone is written with one or two characters.                *)
(***************************************************************************)
LowerLetters == <<"a","b","c","d","e","f","g","h","i","j","k","l","m",
                  "n","o","p","q","r","s","t","u","v","w","x","y","z">>
UpperLetters == <<"A","B","C","D","E","F","G","H","I","J","K","L","M",
                  "N","O","P","Q","R","S","T","U","V","W","X","Y","Z">>

\* strings.ToLower
ToLower(s) ==
    [i \in DOMAIN s |->
        IF s[i] \in Upper
        THEN LowerLetters[CHOOSE k \in DOMAIN UpperLetters : UpperLetters[k] = s[i]]
        ELSE s[i]]

\* dns.Fqdn: the name with its trailing dot
Fqdn(s) == IF s # << >> /\ s[Len(s)] = "." THEN s ELSE Append(s, ".")

\* strings.HasSuffix
HasSuffix(s, suffix) ==
    /\ Len(suffix) <= Len(s)
    /\ SubSeq(s, Len(s) - Len(suffix) + 1, Len(s)) = suffix

\* a name as both sides of a comparison take it: lower case, with the trailing dot
Normalize(name) == ToLower(Fqdn(name))

\* the label _acme-challenge
ChallengeLabel == <<"_", "c">>

\* the keys of the Domains map: other-domain.test.
Domains == {<<"o", ".", "t", ".">>}

\* the static records, parsed at startup: an A record at the apex
StaticRecords ==
    <<[Name |-> <<"a", ".", "d", ".">>, Rrtype |-> "A", Class |-> "IN", Ttl |-> 3600,
       Txt |-> << >>, Addr |-> "192.0.2.2"]>>

\* isAuthoritative without the dot in front of the own domain
isAuthoritativeAnySuffix(q) ==
    LET n == Normalize(q.Name)
        own == Normalize(config.OwnDomain)
    IN  \/ n = own
        \/ HasSuffix(n, own)
        \/ \E k \in Domains : n = Normalize(k)

\* the name of the question is the own domain, a descendant of it, or a key
\* of Domains
isAuthoritative(q) ==
    LET n == Normalize(q.Name)
        own == Normalize(config.OwnDomain)
    IN  \/ n = own
        \/ HasSuffix(n, <<".">> \o own)
        \/ \E k \in Domains : n = Normalize(k)

\* isOwnChallenge that compares the name as it was sent
isOwnChallengeAsSent(name) ==
    Fqdn(name) = ChallengeLabel \o <<".">> \o Normalize(config.OwnDomain)

\* the name is _acme-challenge.<own domain>
isOwnChallenge(name) ==
    Normalize(name) = ChallengeLabel \o <<".">> \o Normalize(config.OwnDomain)

\* a resource record of an answer
RR(name, rrtype, txts, addr) ==
    [Name |-> name, Rrtype |-> rrtype, Class |-> "IN", Ttl |-> 1, Txt |-> txts, Addr |-> addr]

\* one TXT record with the name of the question and the own challenge key
answerOwnChallenge(q) == <<RR(q.Name, "TXT", <<config.personalAuthKey>>, "")>>

\* the characters in front of the first dot
RECURSIVE firstLabel(_)
firstLabel(name) ==
    IF name = << >> \/ Head(name) = "." THEN << >>
    ELSE <<Head(name)>> \o firstLabel(Tail(name))

\* the static records that match the name and the type of the question
staticMatch(q) ==
    SelectSeq(StaticRecords,
              LAMBDA rr : /\ Normalize(rr.Name) = Normalize(q.Name)
                          /\ (q.Qtype = "ANY" \/ rr.Rrtype = q.Qtype))

\* one TXT record for every value of the store that is not empty
answerTXT(q, label) ==
    {LET values == SelectSeq(r.out, LAMBDA v : v # "")
     IN  [i \in DOMAIN values |-> RR(q.Name, "TXT", <<values[i]>>, "")] :
        r \in GetTXTForDomain(label, "none")}

\* one record for every address of the store
answerAddr(q, label) ==
    {[i \in DOMAIN r.out |-> RR(q.Name, q.Qtype, << >>, IPString(r.out[i]))] :
        r \in IF q.Qtype = "A" THEN GetAForDomain(label, "none")
              ELSE GetAAAAForDomain(label, "none")}

\* the answers the store gives for the label of the name
dynamicMatch(q) ==
    LET label == sanitizeString(firstLabel(Normalize(q.Name))) IN
    CASE q.Qtype = "TXT" -> answerTXT(q, label)
      [] q.Qtype \in {"A", "AAAA"} -> answerAddr(q, label)
      [] OTHER -> {<< >>}

\* the name has a record of some type
nameExists(q) ==
    \/ \E i \in DOMAIN StaticRecords : Normalize(StaticRecords[i].Name) = Normalize(q.Name)
    \/ isOwnChallenge(q.Name) /\ config.personalAuthKey # ""
    \/ CountRecords(sanitizeString(firstLabel(Normalize(q.Name))), "none").out > 0

Response(rcode, rrs, aa) == [Rcode |-> rcode, Answer |-> rrs, Authoritative |-> aa]

\* the responses the responder may give to question q
answer(q) ==
    IF ~isAuthoritative(q)
    THEN {Response("REFUSED", << >>, FALSE)}
    ELSE IF isOwnChallenge(q.Name) /\ q.Qtype \in {"TXT", "ANY"}
    THEN IF config.personalAuthKey = ""
         THEN {Response("NXDOMAIN", << >>, TRUE)}
         ELSE {Response("NOERROR", answerOwnChallenge(q), TRUE)}
    ELSE {LET rrs == staticMatch(q) \o dyn
          IN  IF rrs # << >> THEN Response("NOERROR", rrs, TRUE)
              ELSE IF nameExists(q) THEN Response("NOERROR", << >>, TRUE)
              ELSE Response("NXDOMAIN", << >>, TRUE) :
            dyn \in dynamicMatch(q)}

\* the own domain as the configuration gives it: auth.domain., or without
\* the trailing dot and in upper case
OwnDomains == {<<"a", ".", "d", ".">>, <<"A", ".", "d">>}

\* the names of the questions: the apex, sub.auth.domain., special-auth.domain.,
\* the key of Domains, _acme-challenge under the own domain, under the other
\* domain and under a subdomain, the two account subdomains, a name of
\* another zone and the parent of the own domain
DnsNames ==
    {<<"a", ".", "d", ".">>, <<"A", ".", "D">>,
     <<"x", ".", "a", ".", "d", ".">>,
     <<"s", "-", "a", ".", "d", ".">>,
     <<"o", ".", "t", ".">>, <<"O", ".", "t">>,
     <<"_", "c", ".", "a", ".", "d", ".">>, <<"_", "C", ".", "A", ".", "d">>,
     <<"_", "c", ".", "o", ".", "t", ".">>,
     <<"_", "c", ".", "x", ".", "a", ".", "d", ".">>,
     <<"a", "7", ".", "a", ".", "d", ".">>, <<"A", "7", ".", "a", ".", "D">>,
     <<"z", "0", ".", "a", ".", "d", ".">>,
     <<"a", "7", ".", "e", ".">>,
     <<"d", ".">>}

QTypes == {"TXT", "A", "AAAA", "ANY", "MX"}

Question(name, qtype) == [Name |-> name, Qtype |-> qtype, Qclass |-> "IN"]

\* every name is asked for TXT; the apex, the own challenge and an account
\* subdomain for every type
Questions ==
    {Question(name, "TXT") : name \in DnsNames}
    \cup {Question(name, qtype) :
            name \in {<<"A", ".", "D">>, <<"_", "C", ".", "A", ".", "d">>,
                      <<"a", "7", ".", "a", ".", "d", ".">>},
            qtype \in QTypes}

\* a query arrives and is answered
DnsQuery ==
    \E q \in Questions :
      \E resp \in answer(q) :
        /\ last' = [op |-> "DnsQuery", arg |-> q, out |-> resp, err |-> FALSE, panic |-> FALSE]
        /\ UNCHANGED <<records, txt, a, aaaa, acmedns, admins, now, config, mru, conc>>

\* the posts of an account: a token, and addresses without a token
DnsPosts ==
    {[Subdomain |-> <<"a", "7">>, Value |-> "x", AValues |-> << >>, AAAAValues |-> << >>],
     [Subdomain |-> <<"a", "7">>, Value |-> "", AValues |-> <<"192.0.2.1">>,
      AAAAValues |-> <<"2001:db8::1">>]}

RegisterDns == RegisterOp({<< >>}, {"none"})
UpdateDns == UpdateOp(DnsPosts, {<<"none", 0>>})

\* the store of Init behind a responder with its configuration
InitDns ==
    /\ records = {}
    /\ txt = NoRows
    /\ a = NoRows
    /\ aaaa = NoRows
    /\ acmedns = <<"1">>
    /\ admins = [exists |-> FALSE, rows |-> {}]
    /\ now = 1
    /\ config \in [UseHeader : {FALSE}, OwnDomain : OwnDomains,
                   personalAuthKey : {"", "own-key-value"}]
    /\ mru = NoRows
    /\ last = [op |-> "none", arg |-> "", out |-> "", err |-> FALSE, panic |-> FALSE]
    /\ Mutex = 0
    /\ flows = [f \in Flows |-> Idle]
    /\ closed = FALSE
    /\ whole = [txt |-> txt, a |-> a, aaaa |-> aaaa]

NextDns ==
    \/ RegisterDns
    \/ UpdateDns
    \/ DnsQuery

SpecDns == InitDns /\ [][NextDns]_vars

(***************************************************************************)
(* Properties of the responder, stated on the labels of the names          *)
(***************************************************************************)
\* the labels of a name, from the left, without the root
RECURSIVE LabelsOf(_)
LabelsOf(s) ==
    IF s = << >> THEN << >>
    ELSE LET k == CHOOSE k \in 1..(Len(s) + 1) :
                    /\ k = Len(s) + 1 \/ s[k] = "."
                    /\ \A j \in 1..(k - 1) : s[j] # "."
         IN  <<SubSeq(s, 1, k - 1)>> \o LabelsOf(SubSeq(s, k + 1, Len(s)))

\* the labels of the name of the last question and of the own domain, in lower case
QLabels == LabelsOf(ToLower(last.arg.Name))
OwnLabels == LabelsOf(ToLower(config.OwnDomain))

\* C24: authority.  For every query name n (compared without regard to case,
\* with or without the trailing dot) the responder is authoritative iff n is
\* the own domain, or n ends with the own domain on a label boundary (a
\* proper descendant: special-auth.domain. is not under auth.domain.), or n
\* is a key of the Domains map; every query it is not authoritative for is
\* answered REFUSED with no answer records.
C24_Authority ==
    last.op = "DnsQuery" =>
        LET authoritative ==
                \/ QLabels = OwnLabels
                \/ Len(QLabels) > Len(OwnLabels) /\ HasSuffix(QLabels, OwnLabels)
                \/ \E k \in Domains : QLabels = LabelsOf(ToLower(k))
        IN  /\ isAuthoritative(last.arg) <=> authoritative
            /\ ~authoritative => last.out.Rcode = "REFUSED" /\ last.out.Answer = << >>
            /\ authoritative => last.out.Rcode # "REFUSED"

\* special-auth.domain. was asked of a responder whose own domain is
\* configured in upper case without the trailing dot, and refused
C24_Witness ==
    /\ last.op = "DnsQuery"
    /\ config.OwnDomain = <<"A", ".", "d">>
    /\ last.arg.Name = <<"s", "-", "a", ".", "d", ".">>
    /\ last.out.Rcode = "REFUSED"

\* C25: own challenge.  A name is the server's own challenge iff it is
\* _acme-challenge.<own domain>, compared without regard to case and with the
\* trailing dots normalized on both sides (a challenge name under another
\* domain, or the own domain itself, is not); a TXT (or ANY) query for such a
\* name is answered with exactly one TXT record that has the name of the
\* query, class IN, TTL 1 and the configured own challenge key as its single
\* string, and with NXDOMAIN when the key is unset.
C25_OwnChallenge ==
    last.op = "DnsQuery" =>
        LET q == last.arg
            challenge == QLabels = <<ChallengeLabel>> \o OwnLabels
        IN  /\ isOwnChallenge(q.Name) <=> challenge
            /\ (challenge /\ q.Qtype \in {"TXT", "ANY"}) =>
                 IF config.personalAuthKey = ""
                 THEN last.out.Rcode = "NXDOMAIN" /\ last.out.Answer = << >>
                 ELSE /\ last.out.Rcode = "NOERROR"
                      /\ last.out.Answer =
                            <<[Name |-> q.Name, Rrtype |-> "TXT", Class |-> "IN", Ttl |-> 1,
                               Txt |-> <<config.personalAuthKey>>, Addr |-> ""]>>
            /\ ~challenge =>
                 \A i \in DOMAIN last.out.Answer :
                    last.out.Answer[i].Txt # <<"own-key-value">>

\* the own challenge was asked for in upper case without the trailing dot
\* and answered with the key
C25_Witness ==
    /\ last.op = "DnsQuery"
    /\ config.OwnDomain = <<"a", ".", "d", ".">>
    /\ config.personalAuthKey = "own-key-value"
    /\ last.arg = Question(<<"_", "C", ".", "A", ".", "d">>, "TXT")
    /\ Len(last.out.Answer) = 1

\* C26: the response code of an authoritative query is NOERROR with answers
\* when at least one record was produced; NXDOMAIN when the name has no
\* records of any type (for an account subdomain: both txt slots empty and no
\* a or aaaa rows, which is the state right after register); NOERROR with an
\* empty answer when the name has records but none of the queried type; the
\* empty values of the txt slots are never emitted as TXT records.
C26_ResponseCode ==
    (last.op = "DnsQuery" /\ last.out.Rcode # "REFUSED") =>
        LET q == last.arg
            o == last.out
            sub == IF Len(QLabels) = Len(OwnLabels) + 1 /\ HasSuffix(QLabels, OwnLabels)
                   THEN QLabels[1] ELSE << >>
            tokens == {v \in Range(ValuesOf(RowsFor(txt, sub))) : v # ""}
            exists ==
                \/ tokens # {}
                \/ RowsFor(a, sub) # << >>
                \/ RowsFor(aaaa, sub) # << >>
                \/ \E i \in DOMAIN StaticRecords :
                        LabelsOf(ToLower(StaticRecords[i].Name)) = QLabels
                \/ /\ QLabels = <<ChallengeLabel>> \o OwnLabels
                   /\ config.personalAuthKey # ""
        IN  /\ o.Answer # << >> => o.Rcode = "NOERROR"
            /\ ~exists => o.Rcode = "NXDOMAIN" /\ o.Answer = << >>
            /\ (exists /\ o.Answer = << >>) => o.Rcode = "NOERROR"
            /\ \A i \in DOMAIN o.Answer :
                    o.Answer[i].Rrtype = "TXT" => "" \notin Range(o.Answer[i].Txt)
            /\ (q.Qtype = "TXT" /\ sub # << >> /\ HasAccount(sub))
                    => {o.Answer[i].Txt[1] : i \in DOMAIN o.Answer} = tokens

\* the TXT records of an account were asked for right after its registration
C26_Witness ==
    /\ last.op = "DnsQuery"
    /\ last.arg = Question(<<"A", "7", ".", "a", ".", "D">>, "TXT")
    /\ HasAccount(<<"a", "7">>)
    /\ \A i \in DOMAIN txt[<<"a", "7">>] : txt[<<"a", "7">>][i].Value = ""
    /\ Len(txt[<<"a", "7">>]) = 2
    /\ a[<<"a", "7">>] = << >>
    /\ aaaa[<<"a", "7">>] = << >>
    /\ last.out.Rcode = "NXDOMAIN"

(***************************************************************************)
(* Concurrent flows.  Each flow makes one store call and takes it          *)
(* statement by statement: d.Mutex.Lock(), the backend statements of the   *)
(* operation, and the deferred d.Mutex.Unlock().  Close takes no lock.     *)
(***************************************************************************)
\* d.Mutex.Lock() that does not wait for the holder
MutexLockNoWait(f) == Mutex' = f

\* d.Mutex.Lock(): returns when the mutex is free, and holds it
MutexLock(f) == Mutex = 0 /\ Mutex' = f

\* an exit path that leaves the mutex locked
MutexUnlockSkipped(f) == Mutex' = Mutex

\* the deferred d.Mutex.Unlock()
MutexUnlock(f) == Mutex' = 0

Goto(f, call) == flows' = [flows EXCEPT ![f] = call]

\* the first statement of Update at or after a part ("txt", "a", "aaaa")
PartFrom(post, part) ==
    IF part = "txt" /\ post.Value # "" THEN "txt"
    ELSE IF part \in {"txt", "a"} /\ Len(post.AValues) > 0 THEN "a_delete"
    ELSE IF Len(post.AAAAValues) > 0 THEN "aaaa_delete"
    ELSE "unlock"

\* posts of the flows: a token with a list of two addresses, and a list of
\* one address of each family
ConcPosts ==
    {[Subdomain |-> <<"a", "7">>, Value |-> "x", AValues |-> <<"192.0.2.2", "192.0.2.1">>,
      AAAAValues |-> << >>],
     [Subdomain |-> <<"a", "7">>, Value |-> "", AValues |-> <<"192.0.2.1">>,
      AAAAValues |-> <<"2001:db8::1">>]}

\* a flow calls Update with one of the posts
CallUpdateOf(f, Posts) ==
    \E post \in Posts :
        /\ flows[f].pc = "idle"
        /\ Goto(f, [Idle EXCEPT !.pc = "lock", !.op = "Update", !.post = post])
        /\ UNCHANGED <<store, now, config, mru, last, Mutex, closed, whole>>

\* a flow calls Update(post)
CallUpdate(f) == CallUpdateOf(f, ConcPosts)

\* a flow calls one of the reads
CallReadOf(f, Ops) ==
    \E op \in Ops :
        /\ flows[f].pc = "idle"
        /\ Goto(f, [Idle EXCEPT !.pc = "lock", !.op = op, !.domain = <<"a", "7">>,
                                !.met = IF Mutex = 0 THEN "" ELSE flows[Mutex].pc])
        /\ UNCHANGED <<store, now, config, mru, last, Mutex, closed, whole>>

\* a flow calls GetTXTForDomain, GetAForDomain or GetAAAAForDomain
CallRead(f) == CallReadOf(f, {"GetTXTForDomain", "GetAForDomain", "GetAAAAForDomain"})

\* Lock, and in Update the reading of the clock
Lock(f) ==
    /\ flows[f].pc = "lock"
    /\ MutexLock(f)
    /\ IF flows[f].op = "Update"
       THEN \E timenow \in now..MaxTime :
              /\ now' = timenow
              /\ Goto(f, [flows[f] EXCEPT !.timenow = timenow,
                                          !.pc = PartFrom(flows[f].post, "txt")])
       ELSE /\ now' = now
            /\ Goto(f, [flows[f] EXCEPT !.pc = CASE flows[f].op = "Register" -> "register"
                                                [] flows[f].op = "Init" -> "init"
                                                [] OTHER -> "query"])
    /\ UNCHANGED <<store, config, mru, last, closed, whole>>

\* a statement returns an error: always once the backend is closed, and
\* otherwise whenever the backend fails
StatementFails == IF closed THEN {TRUE} ELSE BOOLEAN

\* Update: Prepare and Exec of the UPDATE of the oldest slot
TxtStatement(f) ==
    LET call == flows[f] IN
    \E fails \in StatementFails, pick \in OldestRowChoices(txt, call.post.Subdomain) :
        LET r == UpdateTXT(txt, call.post, call.timenow, pick,
                           IF fails THEN <<"txt", 2>> ELSE <<"none", 0>>) IN
        /\ call.pc = "txt"
        /\ txt' = r.tbl
        /\ Goto(f, IF r.err THEN [call EXCEPT !.pc = "unlock", !.err = TRUE]
                   ELSE [call EXCEPT !.pc = PartFrom(call.post, "a")])
        /\ UNCHANGED <<records, a, aaaa, acmedns, admins, now, config, mru, last,
                       Mutex, closed, whole>>

\* Update: the two Prepares and the Exec of DELETE FROM a (or aaaa)
DeleteStatement(f) ==
    LET call == flows[f]
        sub == call.post.Subdomain
    IN  \E fails \in StatementFails :
        /\ call.pc \in {"a_delete", "aaaa_delete"}
        /\ a' = IF call.pc = "a_delete" /\ ~fails THEN [a EXCEPT ![sub] = << >>] ELSE a
        /\ aaaa' = IF call.pc = "aaaa_delete" /\ ~fails THEN [aaaa EXCEPT ![sub] = << >>]
                   ELSE aaaa
        /\ Goto(f, IF fails THEN [call EXCEPT !.pc = "unlock", !.err = TRUE]
                   ELSE [call EXCEPT !.i = 1,
                                     !.pc = IF call.pc = "a_delete" THEN "a_insert"
                                            ELSE "aaaa_insert"])
        /\ UNCHANGED <<records, txt, acmedns, admins, now, config, mru, last,
                       Mutex, closed, whole>>

\* Update: the Exec of the INSERT of the i-th value
InsertStatement(f) ==
    LET call == flows[f]
        sub == call.post.Subdomain
        isA == call.pc = "a_insert"
        values == IF isA THEN call.post.AValues ELSE call.post.AAAAValues
        row == <<values[call.i]>>
    IN  \E fails \in StatementFails :
        /\ call.pc \in {"a_insert", "aaaa_insert"}
        /\ a' = IF isA /\ ~fails
                THEN [a EXCEPT ![sub] = InsertRows(@, row, call.timenow, 1)] ELSE a
        /\ aaaa' = IF ~isA /\ ~fails
                   THEN [aaaa EXCEPT ![sub] = InsertRows(@, row, call.timenow, 1)] ELSE aaaa
        /\ Goto(f, IF fails THEN [call EXCEPT !.pc = "unlock", !.err = TRUE]
                   ELSE IF call.i < Len(values) THEN [call EXCEPT !.i = @ + 1]
                   ELSE [call EXCEPT !.pc = IF isA THEN PartFrom(call.post, "aaaa")
                                            ELSE "unlock"])
        /\ UNCHANGED <<records, txt, acmedns, admins, now, config, mru, last,
                       Mutex, closed, whole>>

\* the reads: Prepare, Query and the scan of the rows
Query(f) ==
    LET call == flows[f] IN
    \E fails \in StatementFails :
      \E r \in CASE call.op = "GetTXTForDomain" ->
                        GetTXTForDomain(call.domain, IF fails THEN "query" ELSE "none")
                 [] call.op = "GetAForDomain" ->
                        GetAForDomain(call.domain, IF fails THEN "query" ELSE "none")
                 [] OTHER ->
                        GetAAAAForDomain(call.domain, IF fails THEN "query" ELSE "none") :
        /\ call.pc = "query"
        /\ last' = [op |-> call.op, arg |-> call.domain, out |-> r.out, err |-> r.err,
                    panic |-> FALSE]
        /\ Goto(f, [call EXCEPT !.pc = "unlock", !.err = r.err])
        /\ UNCHANGED <<store, now, config, mru, Mutex, closed, whole>>

\* the call returns: the deferred Unlock
Unlock(f) ==
    LET call == flows[f] IN
    /\ call.pc = "unlock"
    /\ MutexUnlock(f)
    /\ Goto(f, [call EXCEPT !.pc = "done"])
    /\ IF call.op = "Update"
       THEN /\ whole' = [txt |-> txt, a |-> a, aaaa |-> aaaa]
            /\ last' = [op |-> "Update", arg |-> call.post, out |-> "", err |-> call.err,
                        panic |-> FALSE]
            /\ mru' = IF call.post.Value # "" /\ ~call.err
                      THEN [mru EXCEPT ![call.post.Subdomain] = Touch(@, call.post.Value)]
                      ELSE mru
       ELSE UNCHANGED <<whole, last, mru>>
    /\ UNCHANGED <<store, now, config, closed>>

\* Close(): d.DB.Close() begins, without the mutex
CallClose(f) ==
    /\ flows[f].pc = "idle"
    /\ ~closed
    /\ Goto(f, [Idle EXCEPT !.pc = "closing", !.op = "Close"])
    /\ UNCHANGED <<store, now, config, mru, last, Mutex, closed, whole>>

\* d.DB.Close() returns: the backend takes no more statements
Close(f) ==
    /\ flows[f].pc = "closing"
    /\ closed' = TRUE
    /\ Goto(f, [flows[f] EXCEPT !.pc = "done"])
    /\ last' = [op |-> "Close", arg |-> "", out |-> "", err |-> FALSE, panic |-> FALSE]
    /\ UNCHANGED <<store, now, config, mru, Mutex, whole>>

\* the database of the flows: one registered account, its two slots and an
\* address that an earlier update stored
ConcAccount ==
    [Username |-> "uuid1", Password |-> Hash("pw1"), Subdomain |-> <<"a", "7">>,
     AllowFrom |-> ToJSON(<< >>)]

InitConc ==
    /\ records = {ConcAccount}
    /\ txt = [NoRows EXCEPT ![<<"a", "7">>] =
                <<[Value |-> "", LastUpdate |-> 0], [Value |-> "", LastUpdate |-> 0]>>]
    /\ a = [NoRows EXCEPT ![<<"a", "7">>] = <<[Value |-> "192.0.2.1", LastUpdate |-> 1]>>]
    /\ aaaa = NoRows
    /\ acmedns = <<"1">>
    /\ admins = [exists |-> FALSE, rows |-> {}]
    /\ now = 1
    /\ config = [UseHeader |-> FALSE]
    /\ mru = NoRows
    /\ last = [op |-> "none", arg |-> "", out |-> "", err |-> FALSE, panic |-> FALSE]
    /\ Mutex = 0
    /\ flows = [f \in Flows |-> Idle]
    /\ closed = FALSE
    /\ whole = [txt |-> txt, a |-> a, aaaa |-> aaaa]

NextConc ==
    \E f \in Flows :
        \/ CallUpdate(f)
        \/ CallRead(f)
        \/ CallClose(f)
        \/ Lock(f)
        \/ TxtStatement(f)
        \/ DeleteStatement(f)
        \/ InsertStatement(f)
        \/ Query(f)
        \/ Unlock(f)
        \/ Close(f)

SpecConc == InitConc /\ [][NextConc]_vars

\* the flow is between the first and the last backend access of its call
InBackend(f) ==
    flows[f].pc \in {"txt", "a_delete", "a_insert", "aaaa_delete", "aaaa_insert",
                     "query", "closing"}

\* C13: every public operation of the store, Close included, holds the
\* mutex from its first backend access to its last, so that no two flows
\* are ever both accessing the backend.
C13_OneFlowInBackend ==
    /\ \A f \in Flows : InBackend(f) => Mutex = f
    /\ \A f, g \in Flows : (InBackend(f) /\ InBackend(g)) => f = g

\* what GetTXTForDomain, GetAForDomain and GetAAAAForDomain may return for a
\* key when the tables are those of t
ReadsOf(t, op, key) ==
    CASE op = "GetTXTForDomain" ->
            {ValuesOf(rows) : rows \in LimitChoices(RowsFor(t.txt, key), TxtLimit)}
      [] op = "GetAForDomain" ->
            {ScanIPs(ValuesOf(rows), << >>, "a").out :
                rows \in LimitChoices(RowsFor(t.a, key), RowLimit)}
      [] OTHER ->
            {ScanIPs(ValuesOf(rows), << >>, "aaaa").out :
                rows \in LimitChoices(RowsFor(t.aaaa, key), RowLimit)}

\* C14: what a read returns while other flows update is the complete state
\* a whole Update call left: the two slot values, the a set and the aaaa
\* set are never those of the tables in the middle of an Update, such as
\* the a rows after the DELETE and before the INSERTs.
C14_ReadsSeeWholeUpdates ==
    [][\A f \in Flows :
        (flows[f].pc = "query" /\ flows'[f].pc = "unlock" /\ ~last'.err)
            => last'.out \in ReadsOf(whole, flows[f].op, sanitizeString(flows[f].domain))]_vars

\* a read of the a set was called while an Update was between its DELETE
\* and its last INSERT, and has returned the two addresses of the new list
C14_Witness ==
    \E f, g \in Flows :
        /\ flows[f].pc = "done" /\ flows[f].op = "Update" /\ ~flows[f].err
        /\ Len(flows[f].post.AValues) = 2
        /\ flows[g].pc = "unlock" /\ flows[g].op = "GetAForDomain" /\ ~flows[g].err
        /\ flows[g].met = "a_insert"
        /\ last.op = "GetAForDomain" /\ Len(last.out) = 2

(***************************************************************************)
(* The lock.  The flows also call Register and Init, whose statements are  *)
(* taken in one step between d.Mutex.Lock() and the deferred Unlock; a     *)
(* flow that has begun a call goes on (the scheduler runs every goroutine  *)
(* that can run) and a flow that waits in Lock gets the mutex when it is   *)
(* released again and again (sync.Mutex hands it to a starving waiter).    *)
(***************************************************************************)
\* a flow calls Register(afrom) with no allowfrom
CallRegister(f) ==
    /\ flows[f].pc = "idle"
    /\ Cardinality(records) < MaxAccounts
    /\ Goto(f, [Idle EXCEPT !.pc = "lock", !.op = "Register"])
    /\ UNCHANGED <<store, now, config, mru, last, Mutex, closed, whole>>

\* a flow calls Init
CallInit(f) ==
    /\ flows[f].pc = "idle"
    /\ Goto(f, [Idle EXCEPT !.pc = "lock", !.op = "Init"])
    /\ UNCHANGED <<store, now, config, mru, last, Mutex, closed, whole>>

\* Register between Lock and the deferred Unlock: it returns, with or
\* without an error, or panics in tx.Prepare after a Begin that failed (the
\* only outcome once the backend is closed)
RegisterStatements(f) ==
    LET call == flows[f] IN
    \E g \in {m \in Minted : m.u = "uuid2"},
       fault \in IF closed THEN {"begin"} ELSE {"none", "begin", "prepare"} :
        LET r == RegisterResult(<< >>, g, fault) IN
        /\ call.pc = "register"
        /\ records' = r.records
        /\ txt' = r.txt
        /\ whole' = [txt |-> r.txt, a |-> a, aaaa |-> aaaa]
        /\ mru' = IF r.records # records THEN [mru EXCEPT ![g.s] = << >>] ELSE mru
        /\ last' = [op |-> "Register", arg |-> << >>, out |-> r.out, err |-> r.err,
                    panic |-> r.panic]
        /\ Goto(f, [call EXCEPT !.pc = "unlock", !.err = r.err])
        /\ UNCHANGED <<a, aaaa, acmedns, admins, now, config, Mutex, closed>>

\* Init between Lock and the deferred Unlock: sql.Open fails, or d.DB is the
\* new handle and the database is at its version
InitStatements(f) ==
    LET call == flows[f] IN
    \E fault \in {"none", "open"} :
        LET r == InitResult(fault) IN
        /\ call.pc = "init"
        /\ txt' = r.txt
        /\ acmedns' = r.acmedns
        /\ closed' = (fault = "open" /\ closed)
        /\ last' = [op |-> "Init", arg |-> "", out |-> "", err |-> r.err, panic |-> r.panic]
        /\ Goto(f, [call EXCEPT !.pc = "unlock", !.err = r.err])
        /\ UNCHANGED <<records, a, aaaa, admins, now, config, mru, Mutex, whole>>

\* the post of the flows that call Update: a token
LockPosts ==
    {[Subdomain |-> <<"a", "7">>, Value |-> "x", AValues |-> << >>, AAAAValues |-> << >>]}

CallUpdateLock(f) == CallUpdateOf(f, LockPosts)
CallReadLock(f) == CallReadOf(f, {"GetTXTForDomain"})

\* the steps of a call that has the mutex
Run(f) ==
    \/ TxtStatement(f)
    \/ Query(f)
    \/ RegisterStatements(f)
    \/ InitStatements(f)
    \/ Unlock(f)

NextLock ==
    \E f \in Flows :
        \/ CallUpdateLock(f)
        \/ CallReadLock(f)
        \/ CallRegister(f)
        \/ CallInit(f)
        \/ Lock(f)
        \/ Run(f)

SpecLock ==
    /\ InitConc
    /\ [][NextLock]_vars
    /\ \A f \in Flows : WF_vars(Run(f)) /\ SF_vars(Lock(f))

\* C29: the store lock is always released.  Every operation of the store
\* that acquires the mutex releases it on every exit path (success, an early
\* error return, a Begin or Prepare that failed), so that under fair
\* scheduling a flow that waits for the lock eventually acquires it, and no
\* sequence of failing operations blocks later calls of Register, Update or
\* the reads forever.
C29_LockAlwaysReleased ==
    /\ [](\A f \in Flows : flows[f].pc \in {"idle", "done"} => Mutex # f)
    /\ \A f \in Flows : (flows[f].pc = "lock") ~> (Mutex = f)
    /\ \A f \in Flows : (Mutex = f) ~> (flows[f].pc = "done")

\* a read that was called while a Register held the mutex has acquired it
\* after that Register panicked
C29_Witness ==
    \E f, g \in Flows :
        /\ flows[g].op = "Register" /\ flows[g].pc = "done" /\ flows[g].err
        /\ last.op = "Register" /\ last.panic
        /\ flows[f].op = "GetTXTForDomain" /\ flows[f].met = "register"
        /\ Mutex = f

====
